---------------------------- MODULE Spec2Model ----------------------------
(***************************************************************************)
(* Model of the prediction distribution bot (main.py, database.py).        *)
(*                                                                         *)
(* The SQLite tables are the variables users, bookmakers, user_bookmakers, *)
(* channels, channel_bookmakers, sent_predictions, user_predictions and    *)
(* signal_limits.  The distribution pass                                   *)
(* (send_predictions_to_subscribed_users and, per prediction,              *)
(* send_prediction_to_user_and_channel) is a coroutine: pc is its position,*)
(* and the other handlers (admin callbacks, the scheduler's wakeup, the    *)
(* clock) run only while the pass is suspended at an await.                *)
(*                                                                         *)
(* Time is counted in whole hours since an epoch at midnight.  The server  *)
(* clock is taken to be UTC, so datetime.now() and SQLite's                *)
(* datetime("now") read the same instant; what differs is the text each    *)
(* one produces, and that text is what SQLite compares.                    *)
(*                                                                         *)
(* A transport call (get_chat_member, send_message) that raises is caught  *)
(* by the except clause naming the exception where the installed           *)
(* aiogram.exceptions defines that name (main.py 252), and escapes the     *)
(* distribution as AttributeError where it does not; both are outcomes.    *)
(***************************************************************************)
EXTENDS Integers, Sequences, FiniteSets, Bags, TLC

\* ------------------------------------------------------------------ bounds
NUsers    == 2      \* registered Telegram users 1..NUsers
NChannels == 1      \* channels -1..-NChannels
MaxBatch  == 2      \* predictions returned by one scrape
MaxTicks  == 2      \* clock advances explored
TicksPerDay == 2    \* clock advances per day
MaxLimitRows == 2   \* rows of signal_limits (the default row included)
MaxUserRows == 3    \* rows of user_predictions
MaxAddedDays == 1   \* days of a subscription the admin adds

\* ------------------------------------------------------- program constants
DefaultMaxSignals == 10
DefaultPauseAfter == 5
DefaultPauseHours == 24

UserIds    == 1..NUsers
ChannelIds == { 0 - c : c \in 1..NChannels }

\* ------------------------------------------------------------------- text
\* Scraped text is a sequence of one-character strings.
Digits == {"0", "1", "2", "3", "4", "5", "6", "7", "8", "9"}

\* Characters str.strip() takes off, among those of the scraped text.
Whitespace == {" ", "\t", "\n"}

RECURSIVE LStrip(_)
LStrip(s) == IF s # <<>> /\ Head(s) \in Whitespace THEN LStrip(Tail(s)) ELSE s

RECURSIVE RStrip(_)
RStrip(s) ==
    IF s # <<>> /\ s[Len(s)] \in Whitespace
    THEN RStrip(SubSeq(s, 1, Len(s) - 1)) ELSE s

\* str.strip()
Strip(s) == RStrip(LStrip(s))

\* re.match(r'(\d{2}/\d{2})', date): anchored at the start of the string.
DateMatch(date) ==
    /\ Len(date) >= 5
    /\ date[1] \in Digits /\ date[2] \in Digits
    /\ date[3] = "/"
    /\ date[4] \in Digits /\ date[5] \in Digits

\* The bookmaker made a part of the key.
get_match_key_WithBookmaker(p) ==
    Strip(p.bookmaker) \o <<"|">> \o Strip(p.sport) \o <<"|">> \o Strip(p.date)
        \o <<"|">> \o Strip(p.teams)

\* main.py 88-96
get_match_key(p) ==
    LET sport == Strip(p.sport)
        date  == Strip(p.date)
        teams == Strip(p.teams)
        date_short == IF DateMatch(date) THEN SubSeq(date, 1, 5) ELSE date
    IN  sport \o <<"|">> \o date_short \o <<"|">> \o teams

\* str.replace(old, new) for a one-character old
RECURSIVE Replace(_, _, _)
Replace(s, old, new) ==
    IF s = <<>> THEN <<>>
    ELSE (IF Head(s) = old THEN new ELSE <<Head(s)>>) \o Replace(Tail(s), old, new)

\* html.escape left out of safe_html: only the re.sub of line 260 is applied.
html_escape_Off(s) == s

\* html.escape(s), quote=True: "&" is replaced first, then "<", ">", '"', "'"
html_escape(s) ==
    LET s1 == Replace(s,  "&",  <<"&", "a", "m", "p", ";">>)
        s2 == Replace(s1, "<",  <<"&", "l", "t", ";">>)
        s3 == Replace(s2, ">",  <<"&", "g", "t", ";">>)
        s4 == Replace(s3, "\"", <<"&", "q", "u", "o", "t", ";">>)
    IN  Replace(s4, "'", <<"&", "#", "x", "2", "7", ";">>)

\* Position of the first ">" of s at or after i, 0 without one.
RECURSIVE FindGt(_, _)
FindGt(s, i) ==
    IF i > Len(s) THEN 0
    ELSE IF s[i] = ">" THEN i ELSE FindGt(s, i + 1)

\* re.sub(r'<([^>]+)>', r'&lt;\1&gt;', s): leftmost matches, from left to
\* right; "<" with at least one character other than ">" up to the next ">".
RECURSIVE re_sub(_)
re_sub(s) ==
    IF s = <<>> THEN <<>>
    ELSE LET j == FindGt(s, 2)
         IN  IF Head(s) = "<" /\ j >= 3
             THEN <<"&", "l", "t", ";">> \o SubSeq(s, 2, j - 1)
                      \o <<"&", "g", "t", ";">> \o re_sub(SubSeq(s, j + 1, Len(s)))
             ELSE <<Head(s)>> \o re_sub(Tail(s))

\* main.py 257-261 (None and the empty string are both the empty sequence)
safe_html(s) ==
    IF s = <<>> THEN <<>> ELSE re_sub(html_escape(s))

\* int() of a digit
DigitValue(ch) ==
    CASE ch = "0" -> 0 [] ch = "1" -> 1 [] ch = "2" -> 2 [] ch = "3" -> 3
      [] ch = "4" -> 4 [] ch = "5" -> 5 [] ch = "6" -> 6 [] ch = "7" -> 7
      [] ch = "8" -> 8 [] ch = "9" -> 9

\* The number two digits spell.
TwoDigits(s, i) == DigitValue(s[i]) * 10 + DigitValue(s[i + 1])

\* datetime.strptime(date_str, '%d/%m %H:%M') does not raise, for dates
\* written with two digits in every field (the scraper's dd/mm HH:MM).  The
\* year is 1900, so February has 28 days.
strptime_ok(date_str) ==
    /\ Len(date_str) = 11
    /\ \A i \in {1, 2, 4, 5, 7, 8, 10, 11} : date_str[i] \in Digits
    /\ date_str[3] = "/" /\ date_str[6] = " " /\ date_str[9] = ":"
    /\ LET d == TwoDigits(date_str, 1)
           m == TwoDigits(date_str, 4)
       IN  /\ m \in 1..12
           /\ d >= 1
           /\ d <= (IF m = 2 THEN 28 ELSE IF m \in {4, 6, 9, 11} THEN 30 ELSE 31)
    /\ TwoDigits(date_str, 7) <= 23
    /\ TwoDigits(date_str, 10) <= 59

\* main.py 255: the month names, each one symbol here, in Latin letters
MONTHS_RU == << "yanv.", "fev.", "mar.", "apr.", "may", "iyun", "iyul",
                "avg.", "sen.", "okt.", "noya.", "dek." >>

\* main.py 264-271: the date as the message shows it
formatted_date(date) ==
    LET date_str == Strip(date)
    IN  IF strptime_ok(date_str)
        THEN (IF date_str[1] = "0" THEN <<date_str[2]>> ELSE SubSeq(date_str, 1, 2))
                 \o <<" ", MONTHS_RU[TwoDigits(date_str, 4)], " ">>
                 \o SubSeq(date_str, 7, 11)
        ELSE date_str

\* main.py 274-290: the values the f-string of the message interpolates, by
\* field; the text around them is the template's.
format_message(p) ==
    [ bookmaker  |-> safe_html(p.bookmaker),
      sport      |-> safe_html(p.sport),
      date       |-> safe_html(formatted_date(p.date)),
      tournament |-> safe_html(p.tournament),
      teams      |-> safe_html(p.teams),
      prediction |-> safe_html(p.prediction),
      odd        |-> safe_html(p.odd) ]

\* bookmaker names of the default rows of table bookmakers, by id
Betboom  == <<"B", "e", "t", "b", "o", "o", "m">>
Fonbet   == <<"F", "o", "n", "b", "e", "t">>
Marathon == <<"M", "a", "r", "a", "t", "h", "o", "n">>
Olimp    == <<"O", "l", "i", "m", "p">>
Winline  == <<"W", "i", "n", "l", "i", "n", "e">>

\* a bookmaker that is not among the default rows
Pari     == <<"P", "a", "r", "i">>

Football == <<"F", "o", "o", "t", "b", "a", "l", "l">>
TeamsAB  == <<"T", "e", "a", "m", " ", "A", " ", "-", " ", "T", "e", "a", "m", " ", "B">>
Date1    == <<"1", "2", "/", "0", "5", " ", "1", "8", ":", "3", "0">>
Date1b   == <<"1", "2", "/", "0", "5", " ", "2", "1", ":", "0", "0">>
Date2    == <<"1", "3", "/", "0", "5", " ", "1", "8", ":", "3", "0">>

\* What the scraper can return, row by row (parser.get_predictions).
PredPool == <<
    [bookmaker |-> Fonbet,  sport |-> Football, date |-> Date1,  teams |-> TeamsAB],
    [bookmaker |-> Winline, sport |-> Football, date |-> Date1b, teams |-> TeamsAB],
    [bookmaker |-> Fonbet,  sport |-> Football, date |-> Date2,  teams |-> TeamsAB],
    [bookmaker |-> <<>>,    sport |-> Football, date |-> Date2,  teams |-> TeamsAB],
    [bookmaker |-> Pari,    sport |-> Football, date |-> Date2,  teams |-> TeamsAB] >>

\* The rows of the default bookmakers, and the row without bookmaker.
PredIds == { i \in DOMAIN PredPool : PredPool[i].bookmaker # Pari }
KeyOf(i) == get_match_key(PredPool[i])
BkOf(i)  == Strip(PredPool[i].bookmaker)

\* ------------------------------------------------------------- timestamps
\* A stored timestamp is the text SQLite holds: <<day, separator, hour>>,
\* where the separator is the character code between date and time:
\* 'T' (84) in datetime.isoformat(), ' ' (32) in SQLite's datetime().
\* NULL is the empty tuple.
NULL == <<>>
IsoFormat(t)   == << t \div 24, 84, t % 24 >>
SqlDatetime(t) == << t \div 24, 32, t % 24 >>
FromIsoFormat(s) == s[1] * 24 + s[3]
SqlDate(s) == s[1]

\* SQLite's comparison of two TEXT values (memcmp order); NULL compares to
\* nothing.
TextLess(a, b) ==
    /\ a # NULL /\ b # NULL
    /\ \/ a[1] < b[1]
       \/ a[1] = b[1] /\ a[2] < b[2]
       \/ a[1] = b[1] /\ a[2] = b[2] /\ a[3] < b[3]


\* ------------------------------------------------------------------ state
VARIABLES
    now,                \* the clock, in hours
    users,              \* table users: user_id -> row
    bookmakers,         \* table bookmakers: id -> row (ids are 1..Len)
    user_bookmakers,    \* table user_bookmakers: set of <<user_id, bookmaker_id>>
    channels,           \* table channels: channel_id -> row
    channel_bookmakers, \* table channel_bookmakers: <<channel_id, bookmaker_id>> -> is_selected
    sent_predictions,   \* table sent_predictions: prediction_key -> sent_at
    user_predictions,   \* table user_predictions: bag of rows
    signal_limits,      \* table signal_limits: rows by id
    job,                \* scheduler: pending jobs with id 'send_predictions_job'
    instances,          \* executor: running instances of that job id
    sportschecker_parser, \* the global of main.py 63 is not None
    parsing_paused,     \* the admin's last toggle answered "parsing paused"
    manual_pause,       \* users the admin paused and has not unpaused since
    reactivated,        \* channels my_chat_member_handler found inactive and
                        \* no fan-out has examined since: "fresh", or "read"
                        \* when a fan-out has read the channels since
    parsing_interval,   \* setting 'parsing_interval', by what line 481 makes of it
    tz_str,             \* setting 'timezone'
    job_kwargs,         \* run_date (hour of the day) and timezone of the last
                        \* add_job (line 483)
    prediction_data,    \* predictions handed to get_match_key
    match_key,          \* the keys get_match_key returned for them
    formatted_message,  \* what the message of prediction_data interpolates
    fsm_state,          \* FSM state of the admin's chat (MemoryStorage)
    fsm_data,           \* FSM data of the admin's chat: the limits entered
    fsm_pending,        \* set_state / clear calls of handlers suspended before them
    admins,             \* table users, column is_admin: the user_ids where it is true
    from_user,          \* from_user.id of the update handled last (0: none yet)
    pc,                 \* position of the pass coroutine
    queue,              \* new_predictions_to_send not yet taken by the loop
    cur,                \* prediction_data of the running distribution (0: none)
    ch_list,            \* channels still to visit (rows as read at line 303)
    us_list,            \* users still to visit (user ids as read at line 383)
    limits,             \* signal_limits as read at line 391
    daily_count,        \* daily_count of the user being sent to (line 409)
    cnt,                \* channel_sent, channel_skipped, ... of the distribution
    outcome,            \* what the distribution logged for each recipient
    seen_sent,          \* keys this pass found already in sent_predictions (line 213)
    pass_ok,            \* keys a finished distribution of this pass delivered
    delivered           \* keys delivered at least once to some recipient

dbvars   == <<users, bookmakers, user_bookmakers, channels, channel_bookmakers,
              sent_predictions, user_predictions, signal_limits>>
passvars == <<pc, queue, cur, ch_list, us_list, limits, daily_count, cnt,
              outcome, seen_sent, pass_ok>>
procvars == <<job, instances, sportschecker_parser, parsing_paused,
              manual_pause, reactivated, parsing_interval, tz_str,
              job_kwargs>>
fsmvars  == <<fsm_state, fsm_data, fsm_pending>>
updvars  == <<admins, from_user>>
keyvars  == <<prediction_data, match_key, formatted_message, fsmvars, updvars>>
vars     == <<now, dbvars, procvars, passvars, delivered, keyvars>>

\* ------------------------------------------------------- database: reads
RECURSIVE SortedSeq(_)
SortedSeq(S) ==
    IF S = {} THEN <<>>
    ELSE LET m == CHOOSE x \in S : \A y \in S : x <= y
         IN  <<m>> \o SortedSeq(S \ {m})

\* SELECT * FROM users WHERE end_date > datetime("now") AND is_paused = FALSE
get_all_active_users(us, t) ==
    SortedSeq({ u \in DOMAIN us :
                  /\ TextLess(SqlDatetime(t), us[u].end_date)
                  /\ ~us[u].is_paused })

is_prediction_sent(sp, key) == key \in DOMAIN sp

RECURSIVE BagCount(_, _)
BagCount(B, S) ==
    IF S = {} THEN 0
    ELSE LET r == CHOOSE x \in S : TRUE
         IN  CopiesIn(r, B) + BagCount(B, S \ {r})

\* WHERE user_id = ? AND sent_at = datetime('now'): the rows of this hour.
get_user_daily_signal_count_SameHour(up, u, t) ==
    BagCount(up, { r \in BagToSet(up) :
                     r.user_id = u /\ r.sent_at = SqlDatetime(t) })

\* SELECT COUNT(*) FROM user_predictions
\*  WHERE user_id = ? AND date(sent_at) = date('now')
get_user_daily_signal_count(up, u, t) ==
    BagCount(up, { r \in BagToSet(up) :
                     r.user_id = u /\ SqlDate(r.sent_at) = SqlDate(SqlDatetime(t)) })

\* bookmakers b JOIN user_bookmakers ub ... WHERE ub.user_id = ? AND b.is_active
get_user_bookmakers(bks, ub, u) ==
    { b \in DOMAIN bks : <<u, b>> \in ub /\ bks[b].is_active }

\* bookmakers b JOIN channel_bookmakers cb ... WHERE cb.channel_id = ? AND b.is_active
get_channel_bookmakers(bks, cb, c) ==
    { b \in DOMAIN bks : <<c, b>> \in DOMAIN cb /\ bks[b].is_active }

\* SELECT * FROM channels ORDER BY name (names taken in channel_id order)
get_all_channels(chs) ==
    LET ids == SortedSeq(DOMAIN chs)
    IN  [ k \in DOMAIN ids |-> [channel_id |-> ids[k], is_active |-> chs[ids[k]].is_active] ]

\* ORDER BY id ASC: the oldest row.
get_signal_limits_Oldest(sl) == sl[1]

\* SELECT * FROM signal_limits ORDER BY id DESC LIMIT 1
get_signal_limits(sl) ==
    IF sl # <<>> THEN sl[Len(sl)]
    ELSE [max_signals_per_day  |-> DefaultMaxSignals,
          pause_after_signals  |-> DefaultPauseAfter,
          pause_duration_hours |-> DefaultPauseHours]

\* ------------------------------------------------------ database: writes
\* INSERT OR IGNORE INTO sent_predictions (prediction_key)
add_sent_prediction(sp, key, t) ==
    IF key \in DOMAIN sp THEN sp
    ELSE [ k \in DOMAIN sp \cup {key} |-> IF k = key THEN SqlDatetime(t) ELSE sp[k] ]

\* INSERT OR IGNORE on (user_id, prediction_key): one row per pair at most.
add_user_prediction_Unique(up, u, key, t) ==
    IF \E r \in BagToSet(up) : r.user_id = u /\ r.prediction_key = key
    THEN up
    ELSE up (+) SetToBag({[user_id |-> u, prediction_key |-> key,
                           sent_at |-> SqlDatetime(t)]})

\* database.py 265-273: a row of user_predictions, sent_at by its default

add_user_prediction(up, u, key, t) ==
    up (+) SetToBag({[user_id |-> u, prediction_key |-> key, sent_at |-> SqlDatetime(t)]})

set_user_pause(us, u, hours, t) ==
    IF u \in DOMAIN us
    THEN [us EXCEPT ![u].is_paused = TRUE, ![u].pause_until = IsoFormat(t + hours)]
    ELSE us

unpause_subscription(us, u) ==
    IF u \in DOMAIN us THEN [us EXCEPT ![u].is_paused = FALSE] ELSE us

\* pause_until not looked at: the flag alone decides.
is_user_paused_NoExpiry(us, u, t) ==
    IF u \notin DOMAIN us THEN [ret |-> FALSE, users |-> us]
    ELSE [ret |-> us[u].is_paused, users |-> us]

\* database.is_user_paused: the value returned and the table it leaves
is_user_paused(us, u, t) ==
    IF u \notin DOMAIN us THEN [ret |-> FALSE, users |-> us]
    ELSE IF ~us[u].is_paused THEN [ret |-> FALSE, users |-> us]
    ELSE IF us[u].pause_until # NULL /\ FromIsoFormat(us[u].pause_until) < t
         THEN [ret |-> FALSE, users |-> unpause_subscription(us, u)]
         ELSE [ret |-> TRUE, users |-> us]

\* database.update_subscription
\* The days added to the end date the user has.
update_subscription_Additive(us, u, days, t) ==
    IF u \in DOMAIN us
    THEN [us EXCEPT ![u].end_date =
            IF @ = NULL THEN IsoFormat(t + days * 24)
            ELSE IsoFormat(FromIsoFormat(@) + days * 24)]
    ELSE us

update_subscription(us, u, days, t) ==
    IF u \in DOMAIN us THEN [us EXCEPT ![u].end_date = IsoFormat(t + days * 24)] ELSE us

update_channel_is_active(chs, c, flag) ==
    IF c \in DOMAIN chs THEN [chs EXCEPT ![c].is_active = flag] ELSE chs


\* -------------------------------------------------------------- scheduler
\* The job store is kept as the number of pending jobs with the id
\* 'send_predictions_job': get_job finds one while the number is positive,
\* remove_job takes one out, add_job puts one in.  The trigger is a date, so a
\* job leaves the store when the scheduler has processed its run time.

\* main.py 483-489: add_job names no max_instances, the executor's default
MaxInstances == 1

\* The executor not counting the running instances.
MaxInstancesReached_Never(n) == FALSE

\* main.py 483-489: the executor refuses to submit the job id again
MaxInstancesReached(n) == n >= MaxInstances

\* main.py 596: the numbers the admin can set as parsing interval, by whether
\* the run date of line 481, now + timedelta(seconds=interval + random), is a
\* date that datetime can hold
Intervals == {"in_range", "out_of_range"}

\* The pending job left in the store.
schedule_next_run_NoRemove(j, interval) ==
    IF interval = "out_of_range" THEN j ELSE j + 1

\* main.py 459-502: the pending job, if any, is removed; the run date is
\* computed and a new job added.  A run date out of range raises
\* OverflowError, which the function catches and reports to the admin.
schedule_next_run(j, interval) ==
    LET removed == IF j > 0 THEN j - 1 ELSE j
    IN  IF interval = "out_of_range" THEN removed ELSE removed + 1

\* main.py 504-506: remove_all_jobs, then schedule_next_run
restart_scheduler(j, interval) == schedule_next_run(0, interval)

\* Strings the setting 'timezone' can hold; pytz knows the first two.
KnownTimezones  == {"Europe/Moscow", "Asia/Tokyo"}
StoredTimezones == KnownTimezones \cup {"Mars/Olympus"}

\* main.py 470: the default of get_setting('timezone', ...)
DefaultTimezone == "Europe/Moscow"

\* main.py 474-478: pytz.timezone(tz_str), and Europe/Moscow when pytz raises
\* UnknownTimeZoneError
timezone(tz) == IF tz \in KnownTimezones THEN tz ELSE "Europe/Moscow"

\* No add_job yet.
NoJobKwargs == [run_date |-> -1, timezone |-> ""]

\* main.py 480-489: the arguments of add_job, which is not reached when line
\* 481 raises.  Of run_date the model keeps the hour of the day; the clock
\* counts the hours of the configured timezone, and the interval (100 s by
\* default) and the jitter (at most 30 s) are below an hour.  The run date is
\* handed over as computed: start_time_str and end_time_str are not used.
add_job(kwargs, interval, tz, t) ==
    IF interval = "out_of_range" THEN kwargs
    ELSE [run_date |-> t % 24, timezone |-> timezone(tz)]

\* ------------------------------------------------------------------- init
\* create_tables: the default rows of bookmakers, all active
DefaultBookmakers ==
    << [name |-> Betboom,  is_active |-> TRUE],
       [name |-> Fonbet,   is_active |-> TRUE],
       [name |-> Marathon, is_active |-> TRUE],
       [name |-> Olimp,    is_active |-> TRUE],
       [name |-> Winline,  is_active |-> TRUE] >>

\* value of the local signal_limits while no user fan-out is running
NoLimits == [max_signals_per_day |-> 0, pause_after_signals |-> 0,
             pause_duration_hours |-> 0]

ZeroCnt == [channel_sent |-> 0, channel_skipped |-> 0, channel_errors |-> 0,
            user_sent |-> 0, user_skipped |-> 0, user_errors |-> 0]

\* create_tables and /start: a registered user without subscription
NewUser == [end_date |-> NULL, is_paused |-> FALSE, pause_until |-> NULL]

\* The bot has started (on_startup) on a database with the users us and the
\* channels chs, each added with add_channel, which selects every bookmaker
\* for the new channel.  initialize_parser has succeeded or not, and
\* restart_scheduler has armed the first run.  The settings table holds the
\* timezone tz.
StartedIn(us, chs, tz) ==
    /\ now = 0
    /\ users = us
    /\ bookmakers = DefaultBookmakers
    /\ user_bookmakers = {}
    /\ channels = [ c \in chs |-> [is_active |-> TRUE] ]
    /\ channel_bookmakers = [ x \in chs \X DOMAIN DefaultBookmakers |-> TRUE ]
    /\ sent_predictions = <<>>
    /\ user_predictions = EmptyBag
    /\ signal_limits = << [max_signals_per_day  |-> DefaultMaxSignals,
                           pause_after_signals  |-> DefaultPauseAfter,
                           pause_duration_hours |-> DefaultPauseHours] >>
    /\ parsing_interval = "in_range"
    /\ tz_str = tz
    /\ job = restart_scheduler(0, parsing_interval)
    /\ job_kwargs = add_job(NoJobKwargs, parsing_interval, tz_str, now)
    /\ instances = 0
    /\ sportschecker_parser \in BOOLEAN
    /\ parsing_paused = FALSE
    /\ manual_pause = {}
    /\ reactivated = <<>>
    /\ pc = "idle"
    /\ queue = <<>>
    /\ cur = 0
    /\ ch_list = <<>>
    /\ us_list = <<>>
    /\ limits = NoLimits
    /\ daily_count = 0
    /\ cnt = ZeroCnt
    /\ outcome = <<>>
    /\ seen_sent = {}
    /\ pass_ok = {}
    /\ delivered = {}

\* state.clear(): no state, no data (0 stands for a key that is not there)
NoData == [max_signals |-> 0, pause_after |-> 0]

\* No dialogue with the admin is open and no handler is suspended.
NoDialogue == fsm_state = "None" /\ fsm_data = NoData /\ fsm_pending = {}

\* start_command_handler made the first user to register the admin, and
\* nobody else was made one.
FirstIsAdmin == admins = {1} /\ from_user = 0

\* get_match_key has not been called, and no message was formatted.
NoKey ==
    /\ prediction_data = <<>> /\ match_key = <<>> /\ formatted_message = <<>>
    /\ NoDialogue
    /\ FirstIsAdmin

\* The bot has started with the timezone setting at its default.
Started(us, chs) == StartedIn(us, chs, DefaultTimezone) /\ NoKey

\* Users 1..NUsers have registered and the channels were added.
Init == Started([ u \in UserIds |-> NewUser ], ChannelIds)

\* ----------------------------------------------------------- the pass
\* The pass is suspended at an await exactly at these positions.
AwaitPcs == {"idle", "ch_member", "ch_send", "ch_sleep", "ch_retry",
             "user_send", "sleep"}
AtAwait == pc \in AwaitPcs

\* The event loop can run the scheduler's wakeup: the pass is suspended, or
\* has returned and the executor has not yet released its instance.
LoopFree == AtAwait \/ pc = "done"

Log(r, what) == [ x \in DOMAIN outcome \cup {r} |-> IF x = r THEN what ELSE outcome[x] ]

\* Only deliveries are counted: a skip or an error leaves the counters.
Bump_SentOnly(field) ==
    IF field \in {"channel_sent", "user_sent"}
    THEN [cnt EXCEPT ![field] = @ + 1] ELSE cnt

Bump(field) == [cnt EXCEPT ![field] = @ + 1]

\* What parser.get_predictions() can return: up to MaxBatch rows of the
\* scraped table, each row once, in any order; here the rows are those of pool.
Batches(pool) ==
    UNION { { b \in [1..n -> pool] : \A i, j \in 1..n : b[i] = b[j] => i = j } :
              n \in 0..MaxBatch }

\* The ledger lookup left out: every scraped row is queued.
NewPredictionsToSend_Unfiltered(predictions, sp) == predictions

\* main.py 202-217: the predictions whose key is not in sent_predictions
NewPredictionsToSend(predictions, sp) ==
    SelectSeq(predictions, LAMBDA i : ~is_prediction_sent(sp, KeyOf(i)))

\* main.py 170-219: the scheduler submits the pending job and takes it out of
\* the store; the pass initializes the parser if there is none, scrapes, and
\* queues what is new.  A pass without parser (line 182) or without rows
\* (line 199) arms the next run before it returns.  The model follows one
\* running instance; a further one is counted only.
StartPass(pool) ==
    /\ LoopFree
    /\ job > 0
    /\ ~MaxInstancesReached(instances)
    /\ instances' = instances + 1
    /\ IF pc # "idle"
       THEN /\ job' = job - 1
            /\ UNCHANGED <<sportschecker_parser, job_kwargs, passvars>>
       ELSE \E success \in BOOLEAN, scraped \in Batches(pool) :
              LET initialized == sportschecker_parser \/ success
                  predictions == IF initialized THEN scraped ELSE <<>>
              IN  /\ sportschecker_parser' = initialized
                  /\ queue' = NewPredictionsToSend(predictions, sent_predictions)
                  /\ seen_sent' = { KeyOf(predictions[k]) : k \in
                             { x \in DOMAIN predictions :
                                 KeyOf(predictions[x]) \in DOMAIN sent_predictions } }
                  /\ job' = IF predictions = <<>>
                            THEN schedule_next_run(job - 1, parsing_interval)
                            ELSE job - 1
                  /\ job_kwargs' =
                       IF predictions = <<>>
                       THEN add_job(job_kwargs, parsing_interval, tz_str, now)
                       ELSE job_kwargs
                  /\ pc' = "next"
                  /\ UNCHANGED <<cur, ch_list, us_list, limits, daily_count, cnt,
                                 outcome, pass_ok>>
    /\ UNCHANGED <<now, keyvars, dbvars, parsing_paused, manual_pause, reactivated,
                   parsing_interval, tz_str, delivered>>

\* main.py 483-489: the pending job is due while an instance is running; the
\* executor refuses it, and the date trigger has no further run time
SkipRun ==
    /\ LoopFree
    /\ job > 0
    /\ MaxInstancesReached(instances)
    /\ job' = job - 1
    /\ UNCHANGED <<now, keyvars, dbvars, instances, sportschecker_parser,
                   parsing_paused, manual_pause, reactivated, parsing_interval, tz_str, job_kwargs,
                   passvars, delivered>>

\* main.py 238-250: the loop is over; "finally" arms the next run and the
\* coroutine returns
EndPass ==
    /\ pc = "next"
    /\ queue = <<>>
    /\ job' = schedule_next_run(job, parsing_interval)
    /\ job_kwargs' = add_job(job_kwargs, parsing_interval, tz_str, now)
    /\ pc' = "done"
    /\ cur' = 0
    /\ cnt' = ZeroCnt
    /\ outcome' = <<>>
    /\ seen_sent' = {}
    /\ pass_ok' = {}
    /\ UNCHANGED <<now, keyvars, dbvars, instances, sportschecker_parser,
                   parsing_paused, manual_pause, reactivated, parsing_interval,
                   tz_str, queue, ch_list, us_list, limits, daily_count,
                   delivered>>

\* main.py 170: the executor's callback for the returned coroutine
Released ==
    /\ pc = "done"
    /\ pc' = "idle"
    /\ instances' = instances - 1
    /\ UNCHANGED <<now, keyvars, dbvars, job, sportschecker_parser, parsing_paused,
                   manual_pause, reactivated,
                   parsing_interval, tz_str, job_kwargs, queue,
                   cur, ch_list, us_list, limits, daily_count, cnt, outcome,
                   seen_sent, pass_ok, delivered>>

\* What the caller does when send_prediction_to_user_and_channel returns
\* (main.py 226-232): add_sent_prediction(key), then asyncio.sleep(1).
Returned(sp, i, c) ==
    /\ sent_predictions' = add_sent_prediction(sp, KeyOf(i), now)
    /\ pass_ok' = IF c.channel_sent > 0 \/ c.user_sent > 0
                  THEN pass_ok \cup {KeyOf(i)} ELSE pass_ok
    /\ pc' = "sleep"


\* main.py 223-226, 292-308: the loop takes the next prediction; one without
\* bookmaker returns at once, otherwise the channels are read
BeginDistribution ==
    /\ pc = "next"
    /\ queue # <<>>
    /\ cur' = Head(queue)
    /\ queue' = Tail(queue)
    /\ cnt' = ZeroCnt
    /\ outcome' = <<>>
    /\ IF BkOf(Head(queue)) = <<>>
       THEN /\ Returned(sent_predictions, Head(queue), ZeroCnt)
            /\ UNCHANGED <<ch_list, reactivated>>
       ELSE /\ ch_list' = get_all_channels(channels)
            /\ reactivated' = [ c \in DOMAIN reactivated |-> "read" ]
            /\ pc' = "channels"
            /\ UNCHANGED <<sent_predictions, pass_ok>>
    /\ UNCHANGED <<now, keyvars, users, bookmakers, user_bookmakers, channels,
                   channel_bookmakers, user_predictions, signal_limits, job,
                   instances, sportschecker_parser, parsing_paused, manual_pause,
                   parsing_interval, tz_str, job_kwargs,
                   us_list, limits, daily_count, seen_sent, delivered>>

\* ---------------------------------------------------------- channel fan-out
CurKey == KeyOf(cur)
CurBk  == BkOf(cur)

\* main.py 321-322: names of the channel's selected, active bookmakers
ChannelBkNames(bks, cb, c) ==
    { bks[b].name : b \in { x \in get_channel_bookmakers(bks, cb, c) : cb[<<c, x>>] } }

\* main.py 324: the channel is not skipped for its bookmaker preferences
ChannelAccepts(bks, cb, c, bk) ==
    LET channel_bk_names == ChannelBkNames(bks, cb, c)
    IN  ~(channel_bk_names # {} /\ bk \notin channel_bk_names)

\* The empty list not taken as "all bookmakers".
UserAccepts_NoWildcard(bks, ub, u, bk) ==
    bk \in { bks[b].name : b \in get_user_bookmakers(bks, ub, u) }

\* main.py 416-422: the user is not skipped for their bookmaker preferences
UserAccepts(bks, ub, u, bk) ==
    LET user_bookmakers_ == get_user_bookmakers(bks, ub, u)
    IN  ~(user_bookmakers_ # {} /\ bk \notin { bks[b].name : b \in user_bookmakers_ })

\* main.py 310-330: the head of the channel loop, up to the first await
ChannelNext ==
    /\ pc = "channels"
    /\ ch_list # <<>>
    /\ LET channel == Head(ch_list)
           c == channel.channel_id
       IN  IF ~channel.is_active
           THEN /\ cnt' = Bump("channel_skipped")
                /\ outcome' = Log(c, "inactive")
                /\ ch_list' = Tail(ch_list)
                /\ pc' = "channels"
           ELSE IF ~ChannelAccepts(bookmakers, channel_bookmakers, c, CurBk)
           THEN /\ cnt' = Bump("channel_skipped")
                /\ outcome' = Log(c, "bookmaker")
                /\ ch_list' = Tail(ch_list)
                /\ pc' = "channels"
           ELSE /\ pc' = "ch_member"
                /\ UNCHANGED <<cnt, outcome, ch_list>>
    /\ reactivated' =
         LET c == Head(ch_list).channel_id
         IN  IF c \in DOMAIN reactivated /\ reactivated[c] = "read"
             THEN [ x \in DOMAIN reactivated \ {c} |-> reactivated[x] ]
             ELSE reactivated
    /\ UNCHANGED <<now, keyvars, dbvars, job, instances, sportschecker_parser,
                   parsing_paused, manual_pause, parsing_interval, tz_str, job_kwargs,
                   queue, cur, us_list, limits, daily_count,
                   seen_sent, pass_ok, delivered>>

\* The distribution goes on: what only an escaping exception changes stays.
Handled == UNCHANGED <<cur, us_list, limits, daily_count, pass_ok>>

\* Exceptions of the transport calls, by the name the except clauses give them.
Raised == {"ChatNotFound", "BotKicked", "ChatWriteForbidden", "RetryAfter",
           "BotBlocked", "UserDeactivated", "Exception"}

\* A transport call to recipient x raised and the except clause that is tried
\* first names an attribute that module aiogram.exceptions does not define:
\* the lookup raises AttributeError, no clause of the distribution catches it,
\* and the caller's "except Exception" (main.py 234-236) goes on with the
\* next prediction: no add_sent_prediction, no sleep, no schedule_next_run.
\* The log keeps what was raised.
Escaped(x, what) ==
    /\ pass_ok' = IF cnt.channel_sent > 0 \/ cnt.user_sent > 0
                  THEN pass_ok \cup {CurKey} ELSE pass_ok
    /\ pc' = "next"
    /\ cur' = 0
    /\ cnt' = ZeroCnt
    /\ outcome' = Log(x, what)
    /\ ch_list' = <<>>
    /\ us_list' = <<>>
    /\ limits' = NoLimits
    /\ daily_count' = 0

\* Answers of bot.get_chat_member: a status, or an exception.  The exception
\* is caught by the clause that names it where aiogram.exceptions has that
\* name, and escapes as AttributeError where it has not.
ChMemberResults == {"administrator", "not_administrator", "cannot_post",
                    "ChatNotFound", "BotKicked", "RetryAfter", "Exception"}

\* main.py 332-352, 365-367, 376-378: bot.get_chat_member answers
ChMemberResult ==
    /\ pc = "ch_member"
    /\ \E r \in ChMemberResults, named \in BOOLEAN :
         LET c == Head(ch_list).channel_id
         IN  CASE r \in Raised /\ ~named ->
                    /\ Escaped(c, r)
                    /\ UNCHANGED channels
               [] r = "administrator" ->
                    /\ pc' = "ch_send"
                    /\ Handled
                    /\ UNCHANGED <<channels, cnt, outcome, ch_list>>
               [] r = "RetryAfter" ->
                    /\ pc' = "ch_sleep"
                    /\ outcome' = Log(c, r)
                    /\ Handled
                    /\ UNCHANGED <<channels, cnt, ch_list>>
               [] r \in {"ChatNotFound", "BotKicked"} ->
                    /\ channels' = update_channel_is_active(channels, c, FALSE)
                    /\ cnt' = Bump("channel_errors")
                    /\ outcome' = Log(c, r)
                    /\ ch_list' = Tail(ch_list)
                    /\ pc' = "channels"
                    /\ Handled
               [] OTHER ->
                    /\ cnt' = Bump("channel_errors")
                    /\ outcome' = Log(c, r)
                    /\ ch_list' = Tail(ch_list)
                    /\ pc' = "channels"
                    /\ Handled
                    /\ UNCHANGED channels
    /\ UNCHANGED <<now, keyvars, users, bookmakers, user_bookmakers, channel_bookmakers,
                   sent_predictions, user_predictions, signal_limits, procvars, queue,
                   seen_sent, delivered>>

ChSendResults == {"ok", "ChatWriteForbidden", "RetryAfter", "Exception"}

\* main.py 355-378: bot.send_message to the channel answers
ChSendResult ==
    /\ pc = "ch_send"
    /\ \E r \in ChSendResults, named \in BOOLEAN :
         LET c == Head(ch_list).channel_id
         IN  CASE r \in Raised /\ ~named ->
                    /\ Escaped(c, r)
                    /\ UNCHANGED <<channels, delivered>>
               [] r = "ok" ->
                    /\ cnt' = Bump("channel_sent")
                    /\ outcome' = Log(c, "sent")
                    /\ delivered' = delivered \cup {CurKey}
                    /\ ch_list' = Tail(ch_list)
                    /\ pc' = "channels"
                    /\ Handled
                    /\ UNCHANGED channels
               [] r = "RetryAfter" ->
                    /\ pc' = "ch_sleep"
                    /\ outcome' = Log(c, r)
                    /\ Handled
                    /\ UNCHANGED <<channels, cnt, ch_list, delivered>>
               [] r = "ChatWriteForbidden" ->
                    /\ channels' = update_channel_is_active(channels, c, FALSE)
                    /\ cnt' = Bump("channel_errors")
                    /\ outcome' = Log(c, r)
                    /\ ch_list' = Tail(ch_list)
                    /\ pc' = "channels"
                    /\ Handled
                    /\ UNCHANGED delivered
               [] OTHER ->
                    /\ cnt' = Bump("channel_errors")
                    /\ outcome' = Log(c, r)
                    /\ ch_list' = Tail(ch_list)
                    /\ pc' = "channels"
                    /\ Handled
                    /\ UNCHANGED <<channels, delivered>>
    /\ UNCHANGED <<now, keyvars, users, bookmakers, user_bookmakers, channel_bookmakers,
                   sent_predictions, user_predictions, signal_limits, procvars, queue,
                   seen_sent>>

\* main.py 367-370: asyncio.sleep(e.timeout) is over, the message is sent again
ChSleepDone ==
    /\ pc = "ch_sleep"
    /\ pc' = "ch_retry"
    /\ UNCHANGED <<now, keyvars, dbvars, procvars, queue, cur, ch_list, us_list, limits,
                   daily_count, cnt, outcome, seen_sent, pass_ok, delivered>>

\* main.py 369-375: the second bot.send_message answers
ChRetryResult ==
    /\ pc = "ch_retry"
    /\ \E ok \in BOOLEAN :
         LET c == Head(ch_list).channel_id
         IN  IF ok
             THEN /\ cnt' = Bump("channel_sent")
                  /\ outcome' = Log(c, "sent")
                  /\ delivered' = delivered \cup {CurKey}
             ELSE /\ cnt' = Bump("channel_errors")
                  /\ outcome' = Log(c, "retry_failed")
                  /\ UNCHANGED delivered
    /\ ch_list' = Tail(ch_list)
    /\ pc' = "channels"
    /\ UNCHANGED <<now, keyvars, dbvars, procvars, queue, cur, us_list, limits, daily_count,
                   seen_sent, pass_ok>>


\* ------------------------------------------------------------- user fan-out
\* main.py 380-397: the channel loop is over; the active users and the signal
\* limits are read.  Without active users the distribution re-arms the job
\* and returns.
UsersSnapshot ==
    /\ pc = "channels"
    /\ ch_list = <<>>
    /\ LET active == get_all_active_users(users, now)
       IN  IF active = <<>>
           THEN /\ job' = schedule_next_run(job, parsing_interval)
                /\ job_kwargs' = add_job(job_kwargs, parsing_interval, tz_str, now)
                /\ Returned(sent_predictions, cur, cnt)
                /\ UNCHANGED <<us_list, limits, instances, sportschecker_parser,
                               parsing_paused, manual_pause, reactivated,
                               parsing_interval, tz_str>>
           ELSE /\ us_list' = active
                /\ limits' = get_signal_limits(signal_limits)
                /\ pc' = "users"
                /\ UNCHANGED <<procvars, sent_predictions, pass_ok>>
    /\ UNCHANGED <<now, keyvars, users, bookmakers, user_bookmakers, channels,
                   channel_bookmakers, user_predictions, signal_limits, queue,
                   cur, ch_list, daily_count, cnt, outcome, seen_sent, delivered>>

\* main.py 399-427: the head of the user loop, up to the await of send_message
UserNext ==
    /\ pc = "users"
    /\ us_list # <<>>
    /\ LET u == Head(us_list)
           paused == is_user_paused(users, u, now)
           count == get_user_daily_signal_count(user_predictions, u, now)
       IN  /\ users' = paused.users
           /\ IF paused.ret
              THEN /\ cnt' = Bump("user_skipped")
                   /\ outcome' = Log(u, "paused")
                   /\ us_list' = Tail(us_list)
                   /\ UNCHANGED <<pc, daily_count>>
              ELSE IF count >= limits.max_signals_per_day
              THEN /\ cnt' = Bump("user_skipped")
                   /\ outcome' = Log(u, "limit")
                   /\ us_list' = Tail(us_list)
                   /\ UNCHANGED <<pc, daily_count>>
              ELSE IF ~UserAccepts(bookmakers, user_bookmakers, u, CurBk)
              THEN /\ cnt' = Bump("user_skipped")
                   /\ outcome' = Log(u, "bookmaker")
                   /\ us_list' = Tail(us_list)
                   /\ UNCHANGED <<pc, daily_count>>
              ELSE /\ pc' = "user_send"
                   /\ daily_count' = count
                   /\ UNCHANGED <<cnt, outcome, us_list>>
    /\ UNCHANGED <<now, keyvars, bookmakers, user_bookmakers, channels, channel_bookmakers,
                   sent_predictions, user_predictions, signal_limits, procvars, queue,
                   cur, ch_list, limits, seen_sent, pass_ok, delivered>>

UserSendResults == {"ok", "BotBlocked", "UserDeactivated", "RetryAfter",
                    "Exception"}

\* What the log keeps of a failed send to a user: the retry-after signal, or
\* that it failed.
UserFailure(r) == IF r = "RetryAfter" THEN r ELSE "error"

\* main.py 432-433: the delivery just made reaches the pause threshold
ReachesPauseAfter(count, pause_after) == count + 1 >= pause_after

\* main.py 427-445: bot.send_message to the user answers
UserSendResult ==
    /\ pc = "user_send"
    /\ \E r \in UserSendResults, named \in BOOLEAN :
         LET u == Head(us_list)
         IN  CASE r \in Raised /\ ~named ->
                    /\ Escaped(u, UserFailure(r))
                    /\ UNCHANGED <<user_predictions, users, delivered>>
               [] r = "ok" ->
                    /\ BagCardinality(user_predictions) < MaxUserRows
                    /\ user_predictions' =
                          add_user_prediction(user_predictions, u, CurKey, now)
                    /\ cnt' = Bump("user_sent")
                    /\ outcome' = Log(u, "sent")
                    /\ delivered' = delivered \cup {CurKey}
                    /\ users' = IF ReachesPauseAfter(daily_count, limits.pause_after_signals)
                                THEN set_user_pause(users, u, limits.pause_duration_hours, now)
                                ELSE users
                    /\ us_list' = Tail(us_list)
                    /\ daily_count' = 0
                    /\ pc' = "users"
                    /\ UNCHANGED <<cur, ch_list, limits, pass_ok>>
               [] OTHER ->
                    /\ cnt' = Bump("user_errors")
                    /\ outcome' = Log(u, UserFailure(r))
                    /\ us_list' = Tail(us_list)
                    /\ daily_count' = 0
                    /\ pc' = "users"
                    /\ UNCHANGED <<user_predictions, users, delivered,
                                   cur, ch_list, limits, pass_ok>>
    /\ UNCHANGED <<now, keyvars, bookmakers, user_bookmakers, channels, channel_bookmakers,
                   sent_predictions, signal_limits, procvars, queue, seen_sent>>

\* main.py 449-457: the key is marked if somebody was reached, the job is
\* re-armed, and the distribution returns to its caller
Finalize ==
    /\ pc = "users"
    /\ us_list = <<>>
    /\ job' = schedule_next_run(job, parsing_interval)
    /\ job_kwargs' = add_job(job_kwargs, parsing_interval, tz_str, now)
    /\ limits' = NoLimits
    /\ Returned(IF cnt.channel_sent > 0 \/ cnt.user_sent > 0
                THEN add_sent_prediction(sent_predictions, CurKey, now)
                ELSE sent_predictions, cur, cnt)
    /\ UNCHANGED <<now, keyvars, users, bookmakers, user_bookmakers, channels,
                   channel_bookmakers, user_predictions, signal_limits, queue,
                   cur, ch_list, us_list, daily_count, cnt, outcome, seen_sent,
                   delivered, instances, sportschecker_parser, parsing_paused,
                   manual_pause, reactivated, parsing_interval, tz_str>>

\* main.py 232: asyncio.sleep(1) is over, the loop takes the next prediction
SleepDone ==
    /\ pc = "sleep"
    /\ pc' = "next"
    /\ cur' = 0
    /\ cnt' = ZeroCnt
    /\ outcome' = <<>>
    /\ UNCHANGED <<now, keyvars, dbvars, procvars, queue, ch_list, us_list, limits,
                   daily_count, seen_sent, pass_ok, delivered>>

\* The steps of a pass outside the channel loop.
UserPass(pool) ==
    \/ StartPass(pool) \/ SkipRun \/ EndPass \/ Released \/ BeginDistribution
    \/ UsersSnapshot \/ UserNext \/ UserSendResult
    \/ Finalize \/ SleepDone

Pass(pool) ==
    \/ UserPass(pool)
    \/ ChannelNext \/ ChMemberResult \/ ChSendResult \/ ChSleepDone
    \/ ChRetryResult

\* ------------------------------------------------------ the other handlers
\* Every one of them runs while the pass is suspended at an await.

\* main.py 700-718 process_subscription_days, for a user of S
AddSubscription(S) ==
    /\ AtAwait
    /\ \E u \in S, days \in 1..MaxAddedDays :
         /\ days > 0
         /\ users' = update_subscription(users, u, days, now)
    /\ UNCHANGED <<now, keyvars, bookmakers, user_bookmakers, channels, channel_bookmakers,
                   sent_predictions, user_predictions, signal_limits, procvars,
                   passvars, delivered>>

\* database.pause_subscription
pause_subscription(us, u) ==
    IF u \in DOMAIN us THEN [us EXCEPT ![u].is_paused = TRUE] ELSE us

\* main.py 736-745 pause_subscription_handler
PauseSubscription(S) ==
    /\ AtAwait
    /\ \E u \in S : /\ users' = pause_subscription(users, u)
                    /\ manual_pause' = manual_pause \cup {u}
    /\ UNCHANGED <<now, keyvars, bookmakers, user_bookmakers, channels, channel_bookmakers,
                   sent_predictions, user_predictions, signal_limits, job,
                   instances, sportschecker_parser, parsing_paused, reactivated,
                   parsing_interval, tz_str, job_kwargs, passvars, delivered>>

\* main.py 747-756 unpause_subscription_handler
UnpauseSubscription(S) ==
    /\ AtAwait
    /\ \E u \in S : /\ users' = unpause_subscription(users, u)
                    /\ manual_pause' = manual_pause \ {u}
    /\ UNCHANGED <<now, keyvars, bookmakers, user_bookmakers, channels, channel_bookmakers,
                   sent_predictions, user_predictions, signal_limits, job,
                   instances, sportschecker_parser, parsing_paused, reactivated,
                   parsing_interval, tz_str, job_kwargs, passvars, delivered>>

\* database.check_and_resume_users:
\* UPDATE users SET is_paused = FALSE WHERE pause_until < datetime("now")
check_and_resume_users(us, t) ==
    [ u \in DOMAIN us |->
        IF TextLess(us[u].pause_until, SqlDatetime(t))
        THEN [us[u] EXCEPT !.is_paused = FALSE] ELSE us[u] ]

\* main.py 1600: the interval job 'check_paused_users_job' runs.  on_startup
\* adds it before restart_scheduler (main.py 1601), whose remove_all_jobs
\* empties the store, so the running bot never fires it.
CheckPausedUsersJob ==
    /\ AtAwait
    /\ users' = check_and_resume_users(users, now)
    /\ UNCHANGED <<now, keyvars, bookmakers, user_bookmakers, channels, channel_bookmakers,
                   sent_predictions, user_predictions, signal_limits, procvars,
                   passvars, delivered>>

\* main.py 1518-1536: the admin's "toggle parsing" button.  A stored date job
\* always has a run time, so a pending job is removed ("parsing paused");
\* without a pending job one is armed.
ToggleParsing ==
    /\ AtAwait
    /\ IF job > 0
       THEN /\ job' = job - 1
            /\ parsing_paused' = TRUE
            /\ UNCHANGED job_kwargs
       ELSE /\ job' = schedule_next_run(job, parsing_interval)
            /\ job_kwargs' = add_job(job_kwargs, parsing_interval, tz_str, now)
            /\ parsing_paused' = FALSE
    /\ UNCHANGED <<now, keyvars, dbvars, instances, sportschecker_parser,
                   manual_pause, reactivated, parsing_interval, tz_str,
                   passvars, delivered>>

\* main.py 593-604: the admin sets the parsing interval to a number (lines
\* 625-638 and 649-660 end in restart_scheduler the same way).  The setting
\* is written at line 597; restart_scheduler at line 600 follows the awaited
\* answer of line 598, and is not reached when that answer raises.
ProcessParsingInterval ==
    /\ AtAwait
    /\ \E interval_seconds \in Intervals, answered \in BOOLEAN :
         /\ parsing_interval' = interval_seconds
         /\ job' = IF answered THEN restart_scheduler(job, interval_seconds)
                               ELSE job
         /\ job_kwargs' = IF answered
                          THEN add_job(job_kwargs, interval_seconds, tz_str, now)
                          ELSE job_kwargs
    /\ UNCHANGED <<now, keyvars, dbvars, instances, sportschecker_parser,
                   parsing_paused, manual_pause, reactivated, tz_str,
                   passvars, delivered>>

\* main.py 649-660: the admin sends a timezone.  One that pytz does not know
\* is refused (line 658); a known one is stored (line 653) and, after the
\* awaited answer of line 654, restart_scheduler runs.
ProcessTimezone ==
    /\ AtAwait
    /\ \E text \in StoredTimezones, answered \in BOOLEAN :
         IF text \in KnownTimezones
         THEN /\ tz_str' = text
              /\ job' = IF answered THEN restart_scheduler(job, parsing_interval)
                                    ELSE job
              /\ job_kwargs' = IF answered
                               THEN add_job(job_kwargs, parsing_interval, text, now)
                               ELSE job_kwargs
         ELSE UNCHANGED <<tz_str, job, job_kwargs>>
    /\ UNCHANGED <<now, keyvars, dbvars, instances, sportschecker_parser,
                   parsing_paused, manual_pause, reactivated, parsing_interval,
                   passvars, delivered>>

\* Statuses of the bot in a channel that a my_chat_member update reports.
MemberStatuses == {"administrator", "left", "kicked"}

\* The update left without effect.
my_chat_member_handler_Ignored(chs, c, status) == chs

\* main.py 1568-1575: for a channel that get_channel finds, status
\* administrator ends in update_channel(channel_id, is_active=True, name=title)
my_chat_member_handler(chs, c, status) ==
    IF status = "administrator"
    THEN update_channel_is_active(chs, c, TRUE)
    ELSE chs

\* main.py 1566-1582: Telegram reports the bot's new status in a channel of
\* the channels table
MyChatMember ==
    /\ AtAwait
    /\ \E c \in DOMAIN channels, status \in MemberStatuses :
         /\ channels' = my_chat_member_handler(channels, c, status)
         /\ reactivated' =
              IF status = "administrator" /\ ~channels[c].is_active
              THEN [ x \in DOMAIN reactivated \cup {c} |->
                       IF x = c THEN "fresh" ELSE reactivated[x] ]
              ELSE reactivated
    /\ UNCHANGED <<now, keyvars, users, bookmakers, user_bookmakers, channel_bookmakers,
                   sent_predictions, user_predictions, signal_limits, job,
                   instances, sportschecker_parser, parsing_paused, manual_pause,
                   parsing_interval, tz_str, job_kwargs, passvars, delivered>>

\* database.cancel_subscription: UPDATE users SET end_date = NULL
cancel_subscription(us, u) ==
    IF u \in DOMAIN us THEN [us EXCEPT ![u].end_date = NULL] ELSE us

\* main.py 769-778 cancel_subscription_handler, for a user of S
CancelSubscription(S) ==
    /\ AtAwait
    /\ \E u \in S : users' = cancel_subscription(users, u)
    /\ UNCHANGED <<now, keyvars, bookmakers, user_bookmakers, channels, channel_bookmakers,
                   sent_predictions, user_predictions, signal_limits, procvars,
                   passvars, delivered>>

\* database.add_bookmaker: INSERT OR IGNORE INTO bookmakers (name); name is
\* UNIQUE and is_active defaults to TRUE.  No row of channel_bookmakers or
\* user_bookmakers is written.
add_bookmaker(bks, name) ==
    IF \E b \in DOMAIN bks : bks[b].name = name THEN bks
    ELSE Append(bks, [name |-> name, is_active |-> TRUE])

\* What the admin types as the name of a new bookmaker.
NewBkTexts == {Pari, <<" ">> \o Pari, <<"P">>, Fonbet}

\* main.py 1373-1384 process_new_bk_name
AddNewBk ==
    /\ AtAwait
    /\ \E text \in NewBkTexts :
         LET bk_name == Strip(text)
         IN  IF Len(bk_name) < 2
             THEN UNCHANGED bookmakers
             ELSE bookmakers' = add_bookmaker(bookmakers, bk_name)
    /\ UNCHANGED <<now, keyvars, users, user_bookmakers, channels,
                   channel_bookmakers, sent_predictions, user_predictions,
                   signal_limits, procvars, passvars, delivered>>

\* Bookmakers the admin acts on: Fonbet (id 2) and Winline (id 5).
AdminBks == {2, 5}

\* database.toggle_bookmaker
toggle_bookmaker(bks, b, is_active) ==
    IF b \in DOMAIN bks THEN [bks EXCEPT ![b].is_active = is_active] ELSE bks

\* main.py 1340-1358 admin_toggle_bk_handler
AdminToggleBk ==
    /\ AtAwait
    /\ \E b \in AdminBks :
         bookmakers' = toggle_bookmaker(bookmakers, b, ~bookmakers[b].is_active)
    /\ UNCHANGED <<now, keyvars, users, user_bookmakers, channels, channel_bookmakers,
                   sent_predictions, user_predictions, signal_limits, procvars,
                   passvars, delivered>>

\* database.update_user_bookmakers
update_user_bookmakers(ub, u, ids) ==
    { x \in ub : x[1] # u } \cup { <<u, b>> : b \in ids }

\* main.py 1205-1322: the admin opens the user's bookmaker keyboard (only
\* active bookmakers have a button), picks ids and saves
SaveBk(S) ==
    /\ AtAwait
    /\ \E u \in S, ids \in SUBSET AdminBks :
         /\ \A b \in ids : bookmakers[b].is_active
         /\ user_bookmakers' = update_user_bookmakers(user_bookmakers, u, ids)
    /\ UNCHANGED <<now, keyvars, users, bookmakers, channels, channel_bookmakers,
                   sent_predictions, user_predictions, signal_limits, procvars,
                   passvars, delivered>>

\* main.py 1102-1106: update_channel_bookmaker for every bookmaker
\* (INSERT OR REPLACE of the row)
channel_save_bk(bks, cb, c, selected) ==
    [ x \in DOMAIN cb \cup { <<c, b>> : b \in DOMAIN bks } |->
        IF x[1] = c THEN x[2] \in selected ELSE cb[x] ]

\* main.py 934-1127: the admin opens the channel's bookmaker keyboard, picks
\* ids and saves
ChannelSaveBk ==
    /\ AtAwait
    /\ \E c \in DOMAIN channels, ids \in SUBSET AdminBks :
         channel_bookmakers' = channel_save_bk(bookmakers, channel_bookmakers, c, ids)
    /\ UNCHANGED <<now, keyvars, users, bookmakers, user_bookmakers, channels,
                   sent_predictions, user_predictions, signal_limits, procvars,
                   passvars, delivered>>

\* database.set_signal_limits: a new row
set_signal_limits(sl, max_signals, pause_after, pause_hours) ==
    Append(sl, [max_signals_per_day  |-> max_signals,
                pause_after_signals  |-> pause_after,
                pause_duration_hours |-> pause_hours])

\* main.py 1419-1475: the three inputs of the limits dialogue, each checked
SetSignalLimits ==
    /\ AtAwait
    /\ Len(signal_limits) < MaxLimitRows
    /\ \E max_signals \in 1..2, pause_after \in 1..2, pause_hours \in 1..1 :
         /\ max_signals > 0
         /\ ~(pause_after <= 0 \/ pause_after > max_signals)
         /\ pause_hours > 0
         /\ signal_limits' =
                set_signal_limits(signal_limits, max_signals, pause_after, pause_hours)
    /\ UNCHANGED <<now, keyvars, users, bookmakers, user_bookmakers, channels,
                   channel_bookmakers, sent_predictions, user_predictions, procvars,
                   passvars, delivered>>

\* The clock: time passes, here in steps of 24 / TicksPerDay hours.
Tick ==
    /\ AtAwait
    /\ now < MaxTicks * (24 \div TicksPerDay)
    /\ now' = now + (24 \div TicksPerDay)
    /\ UNCHANGED <<keyvars, dbvars, procvars, passvars, delivered>>

\* --------------------------------------------------------- specifications
\* Distribution and deduplication: every scrape, every transport answer.
Next == Pass(PredIds) \/ AddSubscription(UserIds)
Spec == Init /\ [][Next]_vars

\* Positions of the pass at which a message to a recipient is in flight.
SendPcs == {"ch_send", "ch_retry", "user_send"}

\* C1: a pass that scrapes a prediction whose fingerprint is in the ledger
\* at that moment has no message in flight for that fingerprint, to any
\* channel or user, whatever the bookmaker of the scraped row.
CrossPassDeduplication == pc \in SendPcs => CurKey \notin seen_sent

\* The pass scraped a ledgered fingerprint next to a new one, and is sending
\* the new one.
CrossPassDeduplicationWitness == pc \in SendPcs /\ seen_sent # {}

\* C2: a fingerprint is in the ledger only if some channel or user delivery
\* of a prediction with that fingerprint succeeded.
EffectiveBroadcast == \A k \in DOMAIN sent_predictions : k \in delivered

\* C3: while a message is in flight, its fingerprint is not one whose earlier
\* distribution in the same pass reached a recipient.
IdempotentFanOut == pc \in SendPcs => CurKey \notin pass_ok


\* ------------------------------------------------- bookmaker preferences
\* Pool of the preference runs: the Fonbet row and the Winline row of one match.
PrefPool == {1, 2}

\* The admin edits preferences and the catalogue while passes run.
NextPrefs ==
    \/ Pass(PrefPool) \/ AddSubscription({1}) \/ AdminToggleBk
    \/ SaveBk({1}) \/ ChannelSaveBk
SpecPrefs == Init /\ [][NextPrefs]_vars

\* Names of the bookmakers in user u's rows of user_bookmakers.
UserRowNames(u) == { bookmakers[x[2]].name : x \in { y \in user_bookmakers : y[1] = u } }

\* Names of the bookmakers in channel c's selected rows of channel_bookmakers.
ChannelRowNames(c) ==
    { bookmakers[x[2]].name :
        x \in { y \in DOMAIN channel_bookmakers : y[1] = c /\ channel_bookmakers[y] } }

\* Names of the active bookmakers.
ActiveBkNames == { bookmakers[b].name : b \in { x \in DOMAIN bookmakers : bookmakers[x].is_active } }

\* The user loop decides to send the current prediction to the head user.
UserAttempt == pc = "users" /\ pc' = "user_send"

\* The channel loop decides to deliver the current prediction to the head channel.
ChannelAttempt == pc = "channels" /\ pc' = "ch_member"

\* C4: a user or channel with preference rows is not chosen for a prediction
\* of a bookmaker outside those rows, whatever the admin did before.
PreferenceExclusion ==
    [][ /\ UserAttempt /\ UserRowNames(Head(us_list)) # {}
            => CurBk \in UserRowNames(Head(us_list))
        /\ ChannelAttempt /\ ChannelRowNames(Head(ch_list).channel_id) # {}
            => CurBk \in ChannelRowNames(Head(ch_list).channel_id) ]_vars

\* C5: a subscribed, unpaused, under-quota user with no preference rows, and
\* an active channel with no selected rows, is chosen for delivery of a
\* prediction of every active bookmaker.
WildcardPreference ==
    [][ /\ ( /\ pc = "users" /\ us_list # <<>>
             /\ UserRowNames(Head(us_list)) = {}
             /\ CurBk \in ActiveBkNames
             /\ TextLess(SqlDatetime(now), users[Head(us_list)].end_date)
             /\ ~users[Head(us_list)].is_paused
             /\ get_user_daily_signal_count(user_predictions, Head(us_list), now)
                    < limits.max_signals_per_day )
            => pc' = "user_send"
        /\ ( /\ pc = "channels" /\ ch_list # <<>>
             /\ ChannelRowNames(Head(ch_list).channel_id) = {}
             /\ CurBk \in ActiveBkNames
             /\ Head(ch_list).is_active )
            => pc' = "ch_member" ]_vars

\* The message to a user without rows is in flight after a channel without
\* selected rows got the same prediction.
WildcardPreferenceWitness ==
    /\ pc = "user_send"
    /\ UserRowNames(Head(us_list)) = {}
    /\ \E c \in DOMAIN outcome : /\ c \in DOMAIN channels
                                 /\ outcome[c] = "sent"
                                 /\ ChannelRowNames(c) = {}

\* C6: a recipient taken through the wildcard (its set of selected active
\* bookmakers is empty) is chosen only for predictions of active bookmakers.
DeactivatedExcluded ==
    [][ /\ UserAttempt /\ get_user_bookmakers(bookmakers, user_bookmakers, Head(us_list)) = {}
            => CurBk \in ActiveBkNames
        /\ ChannelAttempt /\ ChannelBkNames(bookmakers, channel_bookmakers,
                                            Head(ch_list).channel_id) = {}
            => CurBk \in ActiveBkNames ]_vars


\* ------------------------------------------------------- quota and pauses
\* Pool of the quota runs: the Fonbet rows of two matches.
QuotaPool == {1, 3}

\* Days of the subscription the users of the quota runs hold.
LongSubscriptionDays == 30

\* No channel was added; the admin has given every user a subscription
\* (process_subscription_days) before the first pass.
InitQuota ==
    /\ Started([ u \in UserIds |->
                   update_subscription([ x \in UserIds |-> NewUser ], u,
                                       LongSubscriptionDays, 0)[u] ], {})
    /\ sportschecker_parser

\* The admin sets limits, pauses and unpauses the last user while passes run
\* and the clock advances.
NextQuota ==
    \/ UserPass(QuotaPool) \/ SetSignalLimits \/ Tick
    \/ PauseSubscription({NUsers}) \/ UnpauseSubscription({NUsers})
SpecQuota == InitQuota /\ [][NextQuota]_vars

\* The send to the head user succeeds in this step.
UserDelivery == pc = "user_send" /\ user_predictions' # user_predictions

\* The user loop examines its head user in this step.
UserExamined == pc = "users" /\ us_list # <<>>

\* u was skipped as paused in this step.
SkippedAsPaused(u) == u \in DOMAIN outcome' /\ outcome'[u] = "paused"

\* u's pause carries an expiry that has passed.
PauseExpired(u) ==
    /\ users[u].is_paused
    /\ users[u].pause_until # NULL
    /\ FromIsoFormat(users[u].pause_until) < now

\* u's subscription has not run out.
Subscribed(u) == TextLess(SqlDatetime(now), users[u].end_date)

\* C7: the successful delivery that brings the user's same-day count to
\* pause_after pauses the user until now + pause_duration_hours; the one that
\* brings it to pause_after - 1 does not touch the user's pause.
QuotaThreshold ==
    [][ UserDelivery =>
          LET u == Head(us_list)
              count == get_user_daily_signal_count(user_predictions', u, now)
          IN  /\ count = limits.pause_after_signals
                   => /\ users'[u].is_paused
                      /\ users'[u].pause_until =
                             IsoFormat(now + limits.pause_duration_hours)
              /\ count = limits.pause_after_signals - 1
                   => users'[u] = users[u] ]_vars

\* C8: a user whose same-day count has reached max_signals_per_day is
\* skipped: no send starts, no row is written, is_paused and pause_until stay.
DailyCapSkip ==
    [][ ( /\ UserExamined
          /\ get_user_daily_signal_count(user_predictions, Head(us_list), now)
                 >= limits.max_signals_per_day )
          => /\ pc' # "user_send"
             /\ user_predictions' = user_predictions
             /\ users'[Head(us_list)] = users[Head(us_list)] ]_vars

\* C9: a subscribed user whose pause has expired is among the users the
\* next distribution examines, with or without a sweep in between.
ExpiredPauseResolved ==
    [][ (pc = "channels" /\ ch_list = <<>>)
          => \A u \in DOMAIN users :
               (Subscribed(u) /\ PauseExpired(u))
                  => \E i \in DOMAIN us_list' : us_list'[i] = u ]_vars

\* C10: is_user_paused, as the user loop calls it: false for a user who is
\* not paused; for a paused user whose pause_until has passed, is_paused is
\* written false and the answer is false; otherwise true and nothing changes.
LazyPauseExpiry ==
    [][ UserExamined =>
          LET u == Head(us_list)
          IN  /\ ~users[u].is_paused
                   => ~SkippedAsPaused(u) /\ users' = users
              /\ PauseExpired(u)
                   => /\ ~SkippedAsPaused(u)
                      /\ users' = [users EXCEPT ![u].is_paused = FALSE]
              /\ (users[u].is_paused /\ ~PauseExpired(u))
                   => SkippedAsPaused(u) /\ users' = users ]_vars

\* A user whom the admin paused during the pass was skipped as paused.
LazyPauseExpiryWitness ==
    \E u \in DOMAIN outcome : u \in DOMAIN users /\ outcome[u] = "paused"


\* ------------------------------------------------- failures of one delivery
Recipients == ChannelIds \cup UserIds

\* The step logs for recipient x that its delivery attempt ended with what.
Fails(x, what) ==
    /\ x \in DOMAIN outcome' /\ outcome'[x] = what
    /\ x \notin DOMAIN outcome \/ outcome[x] # what

\* The distribution of the current prediction goes on after the step.
GoesOn == cur' = cur /\ queue' = queue /\ pc' \in {"channels", "ch_sleep", "users"}

\* C11: a channel whose delivery attempt fails with chat-not-found is
\* inactive afterwards, and no delivery is attempted to a channel while it
\* is inactive.
PermanentChannelFailure ==
    [][ \A c \in ChannelIds :
          /\ Fails(c, "ChatNotFound") => ~channels'[c].is_active
          /\ (ChannelAttempt /\ Head(ch_list).channel_id = c)
                => channels[c].is_active ]_vars

\* Ways a channel delivery attempt ends that are permanent.
PermanentClass == {"ChatNotFound", "BotKicked", "ChatWriteForbidden",
                   "not_administrator", "cannot_post"}

\* C12: whenever a channel delivery attempt ends with a failure of the
\* permanent class (chat not found, bot removed, no posting rights, the
\* membership check reporting not-administrator or cannot-post), the channel
\* is inactive immediately afterwards.
PermanentFailureDeactivates ==
    [][ \A c \in ChannelIds : \A what \in PermanentClass :
          Fails(c, what) => channels'[c].is_active = FALSE ]_vars

\* C13: a delivery attempt to a channel or a user that fails with
\* retry-after is followed by the wait and then by exactly one retry, which
\* counts as one sent or as one error; then the next recipient is taken.
TransientRetry ==
    [][ /\ \A x \in Recipients :
             Fails(x, "RetryAfter") => pc' = "ch_sleep" /\ cur' = cur
        /\ (pc = "ch_sleep" /\ pc' # pc) => pc' = "ch_retry"
        /\ (pc = "ch_retry" /\ pc' # pc)
             => /\ pc' = "channels"
                /\ cnt' \in {Bump("channel_sent"), Bump("channel_errors")} ]_vars

\* What the log says of a delivery attempt that failed.
FailureLabels == Raised \cup {"not_administrator", "cannot_post", "error",
                              "retry_failed"}

\* C14: after a delivery attempt that failed, for whatever reason, the
\* distribution of the same prediction goes on with the recipients and the
\* predictions that remain.
FailureIsolation ==
    [][ (\E x \in Recipients, what \in FailureLabels : Fails(x, what))
          => GoesOn ]_vars

\* C15: a failed send to a user leaves the users table and the
\* user-prediction ledger as they were, adds one to the error counter and to
\* nothing else, and the distribution goes on.
UserFailureFrame ==
    [][ \A u \in UserIds :
          Fails(u, "error")
            => /\ users' = users
               /\ user_predictions' = user_predictions
               /\ cnt' = Bump("user_errors")
               /\ GoesOn ]_vars

\* ------------------------------------------------------------ the scheduler
SchedPool == {1, 3}

\* Passes run while the admin toggles parsing, changes the interval and
\* subscribes the first user.
NextSched ==
    \/ Pass(SchedPool) \/ AddSubscription({1})
    \/ ToggleParsing \/ ProcessParsingInterval
SpecSched == Init /\ [][NextSched]_vars

\* C16: whenever a pass ends, whatever happened in it, a job
\* 'send_predictions_job' is pending.
SchedulerRearmed == [][ (pc # "done" /\ pc' = "done") => job' > 0 ]_vars

\* C17: at most one distribution job is pending: every arming replaces the
\* pending job.
SinglePendingJob == job <= 1

\* A second distribution of one pass has armed the job again.
SinglePendingJobWitness == pc = "sleep" /\ Cardinality(pass_ok) >= 2 /\ job = 1

\* C18: a pass starts only when no earlier pass is running.
SequentialPasses == [][ instances' > instances => pc = "idle" ]_vars

\* The job armed by a distribution came due during the pass and was refused.
SequentialPassesWitness == pc = "sleep" /\ job = 0 /\ ~parsing_paused

\* C19: from the admin's pausing of parsing until the admin's resuming it,
\* no job is pending, so no pass is armed or started.
PausedParsingStaysPaused == parsing_paused => job = 0

\* C20: while a delivery to a user is between its reading of the daily count
\* and its writing of the ledger row, the pass it belongs to is the only
\* pass running, so no other delivery to that user is under way.
AtomicQuotaSection == pc = "user_send" => instances = 1

\* A job is pending while a delivery waits for the answer to its send.
AtomicQuotaSectionWitness == pc = "user_send" /\ job > 0

\* C21: a pass whose scrape failed sends nothing, writes no row of any table
\* (no key in sent_predictions, no row in user_predictions), and leaves a job
\* 'send_predictions_job' pending.  The scraper's failure result is the empty
\* list (parser.py 288, 292, 382); it has no path that returns None.
UpstreamFailure ==
    [][ (pc = "idle" /\ pc' = "next" /\ queue' = <<>> /\ seen_sent' = {})
          => /\ delivered' = delivered
             /\ dbvars' = dbvars
             /\ job' > 0 ]_vars

\* ------------------------------------------------------- ledger retention
\* Pool of the retention runs: the Fonbet row and the Winline row of one match.
RetentionPool == {1, 2}

\* Days the retention runs follow the clock for.
MaxDays == 8

\* database.py 259: the age, in days, at which delete_old_predictions drops a
\* row of sent_predictions
RetentionDays == 7

\* sent_at < datetime("now", "-7 days")
OlderThanRetention(sent_at, t) ==
    TextLess(sent_at, SqlDatetime(t - RetentionDays * 24))

\* A day passes.
DayPasses ==
    /\ AtAwait
    /\ now < MaxDays * 24
    /\ now' = now + 24
    /\ UNCHANGED <<keyvars, dbvars, procvars, passvars, delivered>>

\* Passes run as the days go by.  The interval job of delete_old_predictions
\* is added at main.py 1598 and dropped by restart_scheduler's remove_all_jobs
\* at line 1601, before the scheduler starts: it never runs.
NextRetention == UserPass(RetentionPool) \/ DayPasses
SpecRetention == InitQuota /\ [][NextRetention]_vars

\* C22: a key whose row of sent_predictions is older than 7 days does not
\* count as sent when a pass looks its scraped predictions up.
LedgerRetention ==
    [][ (pc = "idle" /\ pc' = "next")
          => \A k \in seen_sent' :
                ~OlderThanRetention(sent_predictions[k], now) ]_vars

\* C23: a user the admin has paused stays paused until the admin unpauses
\* them: nothing but the admin's unpause sets is_paused back to FALSE.
ManualPauseHolds == \A u \in manual_pause : users[u].is_paused

\* ------------------------------------------------- channel reactivation
\* Pool of the reactivation runs: the Fonbet rows of two matches.
ChannelPool == {1, 3}

\* Passes run while Telegram reports changes of the bot's membership.  The
\* admin's channel switch (toggle_channel_status_handler) is left out: a
\* channel goes inactive by a failed delivery only.
NextChannels == Pass(ChannelPool) \/ AddSubscription({1}) \/ MyChatMember
SpecChannels == Init /\ [][NextChannels]_vars

\* The channel loop is at a reactivated channel, in a fan-out that read the
\* channels after the reactivation.
AtReactivated ==
    /\ pc = "channels"
    /\ ch_list # <<>>
    /\ Head(ch_list).channel_id \in DOMAIN reactivated
    /\ reactivated[Head(ch_list).channel_id] = "read"

\* C24: a channel of the channels table that was inactive when the bot
\* became its administrator is active from then on until a fan-out examines
\* it, and the first fan-out that reads the channels afterwards does not skip
\* it as inactive.
ChannelReactivation ==
    [][ /\ \A c \in DOMAIN reactivated' : channels'[c].is_active
        /\ AtReactivated => Head(ch_list).is_active ]_vars

\* The fan-out of a prediction is at a channel that a failed delivery
\* deactivated and the membership handler reactivated before the fan-out
\* began.
ChannelReactivationWitness == AtReactivated /\ Head(ch_list).is_active

\* ------------------------------------------------------ subscription gate
\* Pool of the subscription runs: one Fonbet row.
GatePool == {1}

\* No channel was added; no user holds a subscription when the bot starts.
InitGate ==
    /\ Started([ u \in UserIds |-> NewUser ], {})
    /\ sportschecker_parser

\* The admin gives the first user a one-day subscription or cancels it while
\* passes run and the clock advances, by half days at first and by days then.
NextGate ==
    \/ UserPass(GatePool) \/ AddSubscription({1}) \/ CancelSubscription({1})
    \/ Tick \/ DayPasses
SpecGate == InitGate /\ [][NextGate]_vars

\* u's subscription end date is set and later than the current time; the
\* clock counts hours, and an end date within the current hour counts as later.
EndsLater(u) ==
    /\ users[u].end_date # NULL
    /\ FromIsoFormat(users[u].end_date) >= now

\* C25: the users a fan-out takes as its recipients (main.py 383) all have a
\* subscription end date that is set and later than the time of that reading;
\* a user without one, or with one that has passed, is not among them.
SubscriptionGate ==
    [][ (pc = "channels" /\ pc' = "users")
          => \A k \in DOMAIN us_list' : EndsLater(us_list'[k]) ]_vars

\* --------------------------------------------------- absolute subscription
\* Every user holds a long subscription; the admin gives users a one-day
\* subscription and pauses users while passes run and the clock advances.
NextSubscription ==
    \/ UserPass(GatePool) \/ AddSubscription(UserIds)
    \/ PauseSubscription(UserIds) \/ Tick
SpecSubscription == InitQuota /\ [][NextSubscription]_vars

\* C26: adding a subscription of d days sets the user's end date to now + d
\* days whatever the end date was, and changes nothing else: not the user's
\* pause, not another user.
AbsoluteSubscription ==
    [][ \A u \in DOMAIN users :
          users'[u].end_date # users[u].end_date
            => /\ \E d \in 1..MaxAddedDays :
                    users'[u].end_date = IsoFormat(now + d * 24)
               /\ users'[u].is_paused = users[u].is_paused
               /\ users'[u].pause_until = users[u].pause_until
               /\ \A v \in DOMAIN users \ {u} : users'[v] = users[v] ]_vars

\* A paused user's subscription of LongSubscriptionDays days was replaced by
\* one that ends a few days from now: the end date moved back.
AbsoluteSubscriptionWitness ==
    \E u \in DOMAIN users :
       /\ users[u].is_paused
       /\ now > 0
       /\ \E d \in 1..MaxAddedDays : users[u].end_date = IsoFormat(now + d * 24)
       /\ FromIsoFormat(users[u].end_date) < LongSubscriptionDays * 24

\* ----------------------------------------------------------- the match key
Tennis   == <<"T", "e", "n", "n", "i", "s">>
TeamsCD  == <<"T", "e", "a", "m", " ", "C", " ", "-", " ", "T", "e", "a", "m", " ", "D">>
DateWord == <<"T", "o", "d", "a", "y", " ", "1", "8", ":", "3", "0">>
DateWordb == <<"T", "o", "d", "a", "y", " ", "2", "1", ":", "0", "0">>

\* Rows the scraper can build (parser.py 361-370): fields with and without
\* blanks around them, dates with and without a dd/mm prefix, two bookmakers,
\* two odds.
ScrapedRows ==
    [ bookmaker : {Fonbet, Winline},
      sport     : {Football, <<" ">> \o Football \o <<"\n">>, Tennis},
      date      : {Date1, Date1b, <<" ">> \o Date1, Date2, DateWord, DateWordb},
      teams     : {TeamsAB, TeamsAB \o <<" ">>, TeamsCD},
      odd       : {"1.85", "2.10"} ]

\* Two scraped rows wait for their keys.
InitKey ==
    /\ StartedIn([ u \in UserIds |-> NewUser ], {}, DefaultTimezone)
    /\ prediction_data \in ScrapedRows \X ScrapedRows
    /\ match_key = <<>>
    /\ formatted_message = <<>>
    /\ NoDialogue
    /\ FirstIsAdmin

\* main.py 211: the pass asks for the key of each row
GetMatchKey ==
    /\ match_key = <<>>
    /\ match_key' = << get_match_key(prediction_data[1]),
                       get_match_key(prediction_data[2]) >>
    /\ UNCHANGED <<now, dbvars, procvars, passvars, delivered, prediction_data,
                   formatted_message, fsmvars, updvars>>

NextKey == GetMatchKey
SpecKey == InitKey /\ [][NextKey]_vars

\* The dd/mm prefix of the stripped date, or the stripped date without one.
DatePrefix(date) ==
    IF DateMatch(Strip(date)) THEN SubSeq(Strip(date), 1, 5) ELSE Strip(date)

\* Two rows agree in stripped sport, date prefix and stripped teams.
SameMatch(a, b) ==
    /\ Strip(a.sport) = Strip(b.sport)
    /\ DatePrefix(a.date) = DatePrefix(b.date)
    /\ Strip(a.teams) = Strip(b.teams)

\* 'Football|12/05|Team A - Team B'
ExampleKey == Football \o <<"|", "1", "2", "/", "0", "5", "|">> \o TeamsAB

\* C27: rows that agree in stripped sport, in the dd/mm prefix of the date
\* (the whole stripped date where there is no prefix) and in stripped teams
\* have the same key, whatever their bookmaker, time of day and odd; the key
\* of Football, '12/05 18:30', 'Team A - Team B' is
\* 'Football|12/05|Team A - Team B'.
MatchKeyIgnoresBookmaker ==
    match_key # <<>> =>
      /\ SameMatch(prediction_data[1], prediction_data[2])
           => match_key[1] = match_key[2]
      /\ \A k \in 1..2 :
           /\ prediction_data[k].sport = Football
           /\ prediction_data[k].date = Date1
           /\ prediction_data[k].teams = TeamsAB
           => match_key[k] = ExampleKey

\* The keys were computed for two rows of one match that differ in bookmaker,
\* time of day and odd.
MatchKeyIgnoresBookmakerWitness ==
    /\ match_key # <<>>
    /\ SameMatch(prediction_data[1], prediction_data[2])
    /\ prediction_data[1].bookmaker # prediction_data[2].bookmaker
    /\ prediction_data[1].date # prediction_data[2].date
    /\ prediction_data[1].odd # prediction_data[2].odd

\* ------------------------------------------------------- empty bookmaker
\* C28: the distribution of a prediction without bookmaker sends nothing and
\* changes no table: no key joins sent_predictions, no row joins
\* user_predictions, no pause and no channel flag changes.
EmptyBookmakerNoOp ==
    [][ (pc = "next" /\ queue # <<>> /\ BkOf(Head(queue)) = <<>>)
          => /\ delivered' = delivered
             /\ dbvars' = dbvars ]_vars

\* ---------------------------------------------------------- working hours
\* main.py 468-469: the defaults of working_start_time ('08:00') and
\* working_end_time ('23:00'), in hours
WorkingStart == 8
WorkingEnd   == 23

\* The hour lies in the working-hours window.
WithinWorkingHours(hour) ==
    /\ WorkingStart <= hour
    /\ hour <= WorkingEnd

\* C29: the run time of a pending distribution job lies inside the working
\* hours, working_start_time to working_end_time, of the configured timezone.
WorkingHoursClamp == job > 0 => WithinWorkingHours(job_kwargs.run_date)

\* --------------------------------------------------------------- timezone
\* Pool of the timezone runs: one Fonbet row.
TzPool == {1}

\* The settings table the bot starts on holds any string as its timezone:
\* process_timezone stores only what pytz knows, but the table outlives the
\* process and the tz database it was checked against.
InitTz ==
    /\ \E tz \in StoredTimezones :
         StartedIn([ u \in UserIds |-> NewUser ], ChannelIds, tz)
    /\ NoKey

\* Passes run while the admin sets the interval and the timezone.
NextTz ==
    \/ Pass(TzPool) \/ AddSubscription({1})
    \/ ProcessParsingInterval \/ ProcessTimezone
SpecTz == InitTz /\ [][NextTz]_vars

\* C30: with a stored timezone that pytz does not know, the scheduling at the
\* end of a pass arms the next run, in timezone Europe/Moscow.
TimezoneFallback ==
    [][ (pc # "done" /\ pc' = "done" /\ tz_str \notin KnownTimezones)
          => /\ job' > 0
             /\ job_kwargs'.timezone = "Europe/Moscow" ]_vars

\* ----------------------------------------------------------------- sweep
\* Pool of the sweep runs: one Fonbet row.
SweepPool == {1}

\* Passes run, the admin sets limits and cancels subscriptions, the clock
\* advances.  The interval job 'check_paused_users_job' is not among the
\* steps: on_startup adds it to a scheduler that has not started, and
\* restart_scheduler's remove_all_jobs (main.py 504) drops it before
\* scheduler.start() (main.py 1601-1602).
NextSweep ==
    \/ UserPass(SweepPool) \/ SetSignalLimits \/ CancelSubscription(UserIds)
    \/ Tick

\* Time passes, and the asyncio loop runs every step of a pass that can run.
SpecSweep ==
    /\ InitQuota /\ [][NextSweep]_vars
    /\ WF_vars(Tick) /\ WF_vars(UserPass(SweepPool))

DefaultLimits == [max_signals_per_day  |-> DefaultMaxSignals,
                  pause_after_signals  |-> DefaultPauseAfter,
                  pause_duration_hours |-> DefaultPauseHours]

\* C32: set_signal_limits only appends, and get_signal_limits then returns
\* the triple just written; while no call was made it returns 10/5/24; the
\* user fan-out of a distribution takes the triple get_signal_limits returns
\* when it starts.
LatestLimitsWin ==
    [][ /\ signal_limits' # signal_limits
           => \E max_signals \in 1..2, pause_after \in 1..2, pause_hours \in 1..1 :
                LET written == [max_signals_per_day  |-> max_signals,
                                pause_after_signals  |-> pause_after,
                                pause_duration_hours |-> pause_hours]
                IN  /\ signal_limits' = Append(signal_limits, written)
                    /\ get_signal_limits(signal_limits') = written
        /\ Len(signal_limits) = 1
           => get_signal_limits(signal_limits) = DefaultLimits
        /\ (pc = "channels" /\ pc' = "users")
           => limits' = signal_limits[Len(signal_limits)] ]_vars

\* A user fan-out runs on limits the admin set after the bot started, and
\* they differ from the row before them.
LatestLimitsWinWitness ==
    /\ pc = "user_send"
    /\ Len(signal_limits) = 2
    /\ limits = signal_limits[2]
    /\ limits # signal_limits[1]

\* -------------------------------------------------------- per-user ledger
\* Rows of user_predictions for user u and key.
UserRows(up, u, key) ==
    BagCount(up, { r \in BagToSet(up) : r.user_id = u /\ r.prediction_key = key })

\* The keys of the rows the scraper can return.
PoolKeys == { KeyOf(i) : i \in PredIds }

\* This step is the answer to a send of key to u, and the send succeeded
\* (main.py 428-431: user_sent is counted after the awaited send_message).
SuccessfulSend(u, key) ==
    /\ pc = "user_send"
    /\ Head(us_list) = u
    /\ CurKey = key
    /\ cnt'.user_sent = cnt.user_sent + 1

\* C33: the table starts empty, and a step adds one row for (user, key)
\* when it is a successful send of key to user and leaves the rows of
\* (user, key) alone when it is not: the rows count the successful sends, and
\* a skipped or failed send writes none.
LedgerMatchesDeliveries ==
    [][ \A u \in UserIds, key \in PoolKeys :
          UserRows(user_predictions', u, key) =
              UserRows(user_predictions, u, key)
                  + (IF SuccessfulSend(u, key) THEN 1 ELSE 0) ]_vars

\* A key was sent to a user twice with success, the second time just now,
\* and the user has two rows for it.
LedgerMatchesDeliveriesWitness ==
    \E u \in UserIds, key \in PoolKeys :
        /\ UserRows(user_predictions, u, key) = 2
        /\ u \in DOMAIN outcome /\ outcome[u] = "sent"

\* -------------------------------------------------------- daily quota cap
\* Rows of user_predictions for user u written on calendar day d.
DayRows(up, u, d) ==
    BagCount(up, { r \in BagToSet(up) : r.user_id = u /\ r.sent_at[1] = d })

\* C34: a successful delivery leaves the user's deliveries of that calendar
\* day at or below the max_signals_per_day its fan-out runs on; with limits
\* that do not change during the day, the day's deliveries to a user never
\* exceed max_signals_per_day.
DailyQuotaCap ==
    [][ UserDelivery
          => DayRows(user_predictions', Head(us_list), now \div 24)
                 <= limits.max_signals_per_day ]_vars

\* A user has had max_signals_per_day deliveries today and was skipped for it.
DailyQuotaCapWitness ==
    \E u \in UserIds :
        /\ u \in DOMAIN outcome /\ outcome[u] = "limit"
        /\ DayRows(user_predictions, u, now \div 24) = limits.max_signals_per_day

\* ------------------------------------------------------- outcome counters
\* Positions of the channel loop and of the user loop.
ChannelPcs == {"channels", "ch_member", "ch_send", "ch_sleep", "ch_retry"}
UserPcs    == {"users", "user_send"}

\* main.py 378, 447: the three counters of a fan-out
ChannelSum(c) == c.channel_sent + c.channel_skipped + c.channel_errors
UserSum(c)    == c.user_sent + c.user_skipped + c.user_errors

\* No counter goes down in this step.
CountersGrow ==
    \A f \in DOMAIN ZeroCnt : cnt'[f] >= cnt[f]

\* C35: the channel counters start at zero with the channels read, and every
\* step of the channel loop keeps counted + still to do, no counter going
\* down: a channel leaves the list with exactly one counter raised by one, and
\* when the loop ends the three counters sum to the number of channels.  The
\* same holds for the user loop and the users selected at its start.
CountersPartition ==
    [][ /\ (pc = "next" /\ pc' = "channels")
            => /\ ChannelSum(cnt') = 0
               /\ Len(ch_list') = Cardinality(DOMAIN channels)
        /\ (pc \in ChannelPcs /\ pc' \in ChannelPcs)
            => /\ ChannelSum(cnt') + Len(ch_list') = ChannelSum(cnt) + Len(ch_list)
               /\ CountersGrow
        /\ (pc = "channels" /\ pc' = "users")
            => /\ ChannelSum(cnt) = Cardinality(DOMAIN channels)
               /\ UserSum(cnt') = 0
               /\ cnt' = cnt
        /\ (pc \in UserPcs /\ pc' \in UserPcs)
            => /\ UserSum(cnt') + Len(us_list') = UserSum(cnt) + Len(us_list)
               /\ ChannelSum(cnt') = ChannelSum(cnt)
               /\ CountersGrow
        /\ (pc = "users" /\ pc' = "sleep")
            => /\ us_list = <<>>
               /\ ChannelSum(cnt) = Cardinality(DOMAIN channels) ]_vars

\* The user loop has ended with one user delivered to and one skipped, after
\* a channel loop that counted an error.
CountersPartitionWitness ==
    /\ pc = "users"
    /\ us_list = <<>>
    /\ cnt.channel_errors = 1
    /\ cnt.user_sent = 1
    /\ cnt.user_skipped + cnt.user_errors = 1

\* ------------------------------------------------------------ the message
MaxFieldLen == 2    \* characters of a scraped field, all texts explored

\* Characters of a scraped field: a letter and the three HTML specials.
MarkupChars == {"a", "<", ">", "&"}

\* Every text of at most MaxFieldLen such characters.
FieldTexts == UNION { [1..n -> MarkupChars] : n \in 0..MaxFieldLen }

\* A tag with an attribute in quotes, an entity, and a bare ampersand.
TagText    == <<"<", "a", " ", "h", "=", "\"", "'", ">">>
EntityText == <<"&", "l", "t", ";", "b", "&", "g", "t", ";">>

\* Rows whose fields carry markup: every short text as bookmaker and teams,
\* a tag, an entity or plain text in the other fields, a date that parses,
\* one that does not, and one that is markup.
MarkupRows ==
    [ bookmaker  : FieldTexts,
      sport      : {Football, TagText},
      date       : {Date1, DateWord, TagText},
      tournament : {Tennis, EntityText},
      teams      : FieldTexts,
      prediction : {TeamsAB, TagText},
      odd        : {<<"1", ".", "8", "5">>, EntityText} ]

\* A scraped row waits for its message.
InitHtml ==
    /\ StartedIn([ u \in UserIds |-> NewUser ], {}, DefaultTimezone)
    /\ prediction_data \in MarkupRows
    /\ match_key = <<>>
    /\ formatted_message = <<>>
    /\ NoDialogue
    /\ FirstIsAdmin

\* main.py 254-290: send_prediction_to_user_and_channel builds the message
FormatMessage ==
    /\ formatted_message = <<>>
    /\ formatted_message' = format_message(prediction_data)
    /\ UNCHANGED <<now, dbvars, procvars, passvars, delivered, prediction_data,
                   match_key, fsmvars, updvars>>

NextHtml == FormatMessage
SpecHtml == InitHtml /\ [][NextHtml]_vars

\* What can follow "&" in escaped text.
Entities == { <<"a", "m", "p", ";">>, <<"l", "t", ";">>, <<"g", "t", ";">>,
              <<"q", "u", "o", "t", ";">>, <<"#", "x", "2", "7", ";">> }

\* s holds no "<" and no ">", and every "&" of s starts an entity.
IsEscaped(s) ==
    \A i \in 1..Len(s) :
        /\ s[i] \notin {"<", ">"}
        /\ s[i] = "&"
             => \E e \in Entities :
                  /\ i + Len(e) <= Len(s)
                  /\ SubSeq(s, i + 1, i + Len(e)) = e

\* The fields of the message.
MessageFields == {"bookmaker", "sport", "date", "tournament", "teams",
                  "prediction", "odd"}

\* C36: every value the message interpolates, bookmaker, sport, date,
\* tournament, teams, prediction and odd, holds no "<", no ">" and no "&"
\* other than the start of an entity.
MarkupSanitized ==
    formatted_message # <<>>
       => \A f \in MessageFields : IsEscaped(formatted_message[f])

\* A message was built from a row with a tag as teams, an ampersand as
\* bookmaker and markup as date.
MarkupSanitizedWitness ==
    /\ formatted_message # <<>>
    /\ prediction_data.teams = <<"<", "a">>
    /\ prediction_data.bookmaker = <<"&">>
    /\ prediction_data.date = TagText
    /\ formatted_message.teams = <<"&", "l", "t", ";", "a">>

\* ------------------------------------------------ the signal-limit dialogue
MaxInput == 2       \* largest number the admin types

\* What the admin types: numbers from -1 to MaxInput, and a word.
Texts == {"abc"} \cup { ToString(n) : n \in -1..MaxInput }

\* int(message.text) raises ValueError
ValueError(text) == \A n \in -1..MaxInput : ToString(n) # text

\* int(message.text)
int(text) == CHOOSE n \in -1..MaxInput : ToString(n) = text

\* fsm_state is "None" or one of the three states of main.py 115-117.
\* The handlers of one chat run as tasks of one event loop
\* (Dispatcher.start_polling handles every update as a task): a handler is
\* chosen by the FSM state its update finds, runs up to its first awaited
\* answer, and its set_state or clear after that answer is pending until the
\* answer is there.  MemoryStorage's own coroutines do not suspend.
Suspend(call) == fsm_pending' = fsm_pending \cup {call}

\* The awaited answer of a suspended handler is there: its set_state, or its
\* state.clear(), runs (main.py 1416, 1429, 1432, 1447, 1450, 1471, 1475).
Resume ==
    /\ AtAwait
    /\ \E call \in fsm_pending :
         /\ fsm_pending' = fsm_pending \ {call}
         /\ IF call = "clear"
            THEN fsm_state' = "None" /\ fsm_data' = NoData
            ELSE fsm_state' = call /\ UNCHANGED fsm_data
    /\ UNCHANGED <<now, prediction_data, match_key, formatted_message, updvars, dbvars,
                   procvars, passvars, delivered>>

\* main.py 1399-1417: the admin presses "set signal limits"; the state is set
\* after the awaited edit_text.
SetSignalLimitsHandler ==
    /\ AtAwait
    /\ Suspend("waiting_for_max_signals")
    /\ UNCHANGED <<fsm_state, fsm_data>>
    /\ UNCHANGED <<now, prediction_data, match_key, formatted_message, updvars, dbvars,
                   procvars, passvars, delivered>>

\* main.py 539-546: "back to the admin panel" clears state and data at once.
BackToAdminPanel ==
    /\ AtAwait
    /\ fsm_state # "None"
    /\ fsm_state' = "None"
    /\ fsm_data' = NoData
    /\ UNCHANGED fsm_pending
    /\ UNCHANGED <<now, prediction_data, match_key, formatted_message, updvars, dbvars,
                   procvars, passvars, delivered>>

\* main.py 1419-1432: a message in state waiting_for_max_signals
ProcessMaxSignals ==
    /\ AtAwait
    /\ fsm_state = "waiting_for_max_signals"
    /\ \E text \in Texts :
         IF ValueError(text)
         THEN /\ Suspend("waiting_for_max_signals")
              /\ UNCHANGED fsm_data
         ELSE LET max_signals == int(text)
              IN  IF max_signals <= 0
                  THEN UNCHANGED <<fsm_data, fsm_pending>>
                  ELSE /\ fsm_data' = [fsm_data EXCEPT !.max_signals = max_signals]
                       /\ Suspend("waiting_for_pause_after")
    /\ UNCHANGED fsm_state
    /\ UNCHANGED <<now, prediction_data, match_key, formatted_message, updvars, dbvars,
                   procvars, passvars, delivered>>

\* main.py 1434-1450: a message in state waiting_for_pause_after.  Without
\* max_signals in the data the comparison of line 1441 raises TypeError,
\* which the handler does not catch.
ProcessPauseAfter ==
    /\ AtAwait
    /\ fsm_state = "waiting_for_pause_after"
    /\ \E text \in Texts :
         IF ValueError(text)
         THEN /\ Suspend("waiting_for_pause_after")
              /\ UNCHANGED fsm_data
         ELSE LET pause_after == int(text)
                  max_signals == fsm_data.max_signals
              IN  IF pause_after <= 0
                  THEN UNCHANGED <<fsm_data, fsm_pending>>
                  ELSE IF max_signals = 0 \/ pause_after > max_signals
                  THEN UNCHANGED <<fsm_data, fsm_pending>>
                  ELSE /\ fsm_data' = [fsm_data EXCEPT !.pause_after = pause_after]
                       /\ Suspend("waiting_for_pause_hours")
    /\ UNCHANGED fsm_state
    /\ UNCHANGED <<now, prediction_data, match_key, formatted_message, updvars, dbvars,
                   procvars, passvars, delivered>>

\* main.py 1452-1475: a message in state waiting_for_pause_hours; the row is
\* written with the max_signals and pause_after the data holds (0: None, the
\* column is NULL), then the answer is awaited, then the state is cleared.
ProcessPauseHours ==
    /\ AtAwait
    /\ fsm_state = "waiting_for_pause_hours"
    /\ \E text \in Texts :
         IF ValueError(text)
         THEN /\ Suspend("waiting_for_pause_hours")
              /\ UNCHANGED signal_limits
         ELSE LET pause_hours == int(text)
              IN  IF pause_hours <= 0
                  THEN UNCHANGED <<signal_limits, fsm_pending>>
                  ELSE /\ Len(signal_limits) < MaxLimitRows
                       /\ signal_limits' =
                              set_signal_limits(signal_limits, fsm_data.max_signals,
                                                fsm_data.pause_after, pause_hours)
                       /\ Suspend("clear")
    /\ UNCHANGED <<fsm_state, fsm_data>>
    /\ UNCHANGED <<now, prediction_data, match_key, formatted_message, updvars, users,
                   bookmakers, user_bookmakers, channels, channel_bookmakers,
                   sent_predictions, user_predictions, procvars, passvars,
                   delivered>>

\* The admin goes through the dialogue, leaves it and opens it again.
NextLimits ==
    \/ SetSignalLimitsHandler \/ BackToAdminPanel \/ Resume
    \/ ProcessMaxSignals \/ ProcessPauseAfter \/ ProcessPauseHours
SpecLimits == Init /\ [][NextLimits]_vars

\* C37: the limits get_signal_limits returns have max_signals_per_day > 0,
\* 0 < pause_after_signals <= max_signals_per_day and pause_duration_hours > 0.
LimitsWellFormed ==
    LET l == get_signal_limits(signal_limits)
    IN  /\ l.max_signals_per_day > 0
        /\ 0 < l.pause_after_signals
        /\ l.pause_after_signals <= l.max_signals_per_day
        /\ l.pause_duration_hours > 0

NewBkPool == {1, 5}

\* Passes run while the admin adds a bookmaker; nobody edits the channel's
\* bookmaker preferences.
NextNewBk == Pass(NewBkPool) \/ AddSubscription({1}) \/ AddNewBk
SpecNewBk == Init /\ [][NextNewBk]_vars

\* C39: an active channel whose preferences nobody edited is not skipped for
\* its preferences when the prediction's bookmaker is an active bookmaker,
\* one added after the channel included: the membership check starts.
DefaultChannelAcceptsAll ==
    [][ ( /\ pc = "channels" /\ ch_list # <<>>
          /\ Head(ch_list).is_active
          /\ CurBk \in ActiveBkNames )
          => pc' = "ch_member" ]_vars


\* ------------------------------------------------------------ admin rights
\* main.py 98-100 is_admin: the user has a row, and its is_admin is true
is_admin(us, adm, u) == u \in DOMAIN us /\ u \in adm

\* database.add_user: INSERT OR IGNORE INTO users (user_id, username, is_admin)
add_user(us, u) ==
    IF u \in DOMAIN us THEN us
    ELSE [ x \in DOMAIN us \cup {u} |-> IF x = u THEN NewUser ELSE us[x] ]

\* database.make_admin: UPDATE users SET is_admin = TRUE WHERE user_id = ?
make_admin(us, adm, u) == IF u \in DOMAIN us THEN adm \cup {u} ELSE adm

\* database.add_channel, table channels: INSERT OR REPLACE, is_active at its
\* default
add_channel(chs, c) ==
    [ x \in DOMAIN chs \cup {c} |-> IF x = c THEN [is_active |-> TRUE] ELSE chs[x] ]

\* database.add_channel, table channel_bookmakers: INSERT OR IGNORE of a
\* selected row for every bookmaker
add_channel_bookmakers(cb, bks, c) ==
    [ x \in DOMAIN cb \cup ({c} \X DOMAIN bks) |->
        IF x \in DOMAIN cb THEN cb[x] ELSE TRUE ]

\* Nobody has sent /start yet: the users table and the channels table are
\* empty.
InitAdmin ==
    /\ StartedIn([ u \in {} |-> NewUser ], {}, DefaultTimezone)
    /\ prediction_data = <<>> /\ match_key = <<>> /\ formatted_message = <<>>
    /\ NoDialogue
    /\ admins = {}
    /\ from_user = 0

\* main.py 509-526 start_command_handler: /start of the Telegram user a
StartCommand ==
    /\ AtAwait
    /\ \E a \in UserIds :
         /\ from_user' = a
         /\ users' = add_user(users, a)
         /\ admins' = IF a \notin DOMAIN users /\ DOMAIN users = {}
                      THEN admins \cup {a}
                      ELSE admins
    /\ UNCHANGED <<now, prediction_data, match_key, formatted_message, fsmvars,
                   bookmakers, user_bookmakers, channels, channel_bookmakers,
                   sent_predictions, user_predictions, signal_limits,
                   procvars, passvars, delivered>>

\* main.py 758-767 set_admin_handler_from_list: the user a presses the
\* button of the user u
SetAdminHandlerFromList ==
    /\ AtAwait
    /\ \E a \in UserIds, u \in UserIds :
         /\ from_user' = a
         /\ admins' = IF is_admin(users, admins, a)
                      THEN make_admin(users, admins, u)
                      ELSE admins
    /\ UNCHANGED <<now, prediction_data, match_key, formatted_message, fsmvars,
                   dbvars, procvars, passvars, delivered>>

\* main.py 736-745 pause_subscription_handler: the user a presses the button
\* of the user u
PauseSubscriptionHandler ==
    /\ AtAwait
    /\ \E a \in UserIds, u \in UserIds :
         /\ from_user' = a
         /\ IF is_admin(users, admins, a)
            THEN /\ users' = pause_subscription(users, u)
                 /\ manual_pause' = manual_pause \cup {u}
            ELSE UNCHANGED <<users, manual_pause>>
    /\ UNCHANGED <<now, prediction_data, match_key, formatted_message, fsmvars,
                   admins, bookmakers, user_bookmakers, channels,
                   channel_bookmakers, sent_predictions, user_predictions,
                   signal_limits, job, instances, sportschecker_parser,
                   parsing_paused, reactivated, parsing_interval, tz_str,
                   job_kwargs, passvars, delivered>>

\* main.py 1129-1150 toggle_channel_status_handler: the user a presses the
\* button of the channel c
ToggleChannelStatusHandler ==
    /\ AtAwait
    /\ \E a \in UserIds, c \in ChannelIds :
         /\ from_user' = a
         /\ channels' =
              IF is_admin(users, admins, a) /\ c \in DOMAIN channels
              THEN update_channel_is_active(channels, c, ~channels[c].is_active)
              ELSE channels
    /\ UNCHANGED <<now, prediction_data, match_key, formatted_message, fsmvars,
                   admins, users, bookmakers, user_bookmakers,
                   channel_bookmakers, sent_predictions, user_predictions,
                   signal_limits, procvars, passvars, delivered>>

\* main.py 1566-1582 my_chat_member_handler: the Telegram user a changes the
\* bot's status in the channel c; a channel the table does not hold is added
MyChatMemberHandler ==
    /\ AtAwait
    /\ \E a \in UserIds, c \in ChannelIds, status \in MemberStatuses :
         /\ from_user' = a
         /\ IF status = "administrator" /\ c \notin DOMAIN channels
            THEN /\ channels' = add_channel(channels, c)
                 /\ channel_bookmakers' =
                      add_channel_bookmakers(channel_bookmakers, bookmakers, c)
            ELSE /\ channels' = my_chat_member_handler(channels, c, status)
                 /\ UNCHANGED channel_bookmakers
         /\ reactivated' =
              IF status = "administrator" /\ c \in DOMAIN channels
                 /\ ~channels[c].is_active
              THEN [ x \in DOMAIN reactivated \cup {c} |->
                       IF x = c THEN "fresh" ELSE reactivated[x] ]
              ELSE reactivated
    /\ UNCHANGED <<now, prediction_data, match_key, formatted_message, fsmvars,
                   admins, users, bookmakers, user_bookmakers,
                   sent_predictions, user_predictions, signal_limits, job,
                   instances, sportschecker_parser, parsing_paused,
                   manual_pause, parsing_interval, tz_str, job_kwargs,
                   passvars, delivered>>

\* Telegram users send /start, press the admin panel's buttons and change the
\* bot's status in their channels.
NextAdmin ==
    \/ StartCommand
    \/ SetAdminHandlerFromList
    \/ PauseSubscriptionHandler
    \/ ToggleChannelStatusHandler
    \/ MyChatMemberHandler
SpecAdmin == InitAdmin /\ [][NextAdmin]_vars

\* C40: the handler of an update of a user who was no admin when it started
\* changes nothing but that user's own registration: no table of the
\* configuration changes, no row of another user changes or appears, and the
\* user becomes admin only with the first row of the users table.
OnlyAdminsMutate ==
    [][ \/ is_admin(users, admins, from_user')
        \/ /\ UNCHANGED <<bookmakers, user_bookmakers, channels,
                          channel_bookmakers, signal_limits, parsing_interval,
                          tz_str, parsing_paused>>
           /\ DOMAIN users' \subseteq DOMAIN users \cup {from_user'}
           /\ \A u \in DOMAIN users : u \in DOMAIN users' /\ users'[u] = users[u]
           /\ admins \subseteq admins'
           /\ admins' \ admins \subseteq
                (IF DOMAIN users = {} THEN {from_user'} ELSE {}) ]_vars

=============================================================================
